---------------------------- MODULE Spec2Model ----------------------------
(***************************************************************************)
(* Model of the decree-processing scripts: the three text normalizers      *)
(* (DecreeDataLoader.clean_text, OCRExtractor._clean_ocr_text and the      *)
(* pdfplumber PDFExtractor._clean_extracted_text), the metadata extractor  *)
(* and the batch drivers with their per-document extraction calls.         *)
(*                                                                         *)
(* A text is a sequence of characters, each character a one-character      *)
(* string.  Every regular expression of the source is written down as a    *)
(* pattern (a sequence of ordered alternatives, each a sequence of items)  *)
(* and run by one backtracking matcher that follows Python's re module:    *)
(* leftmost match, alternatives in order, greedy quantifiers that give     *)
(* back one repetition at a time.                                          *)
(***************************************************************************)
EXTENDS Integers, Sequences, FiniteSets, TLC

VARIABLES
    family,       \* pure-function runs: the fragments the input is typed from
    text,         \* pure-function runs: the input string
    nfrag,        \* pure-function runs: number of fragments typed into text
    applied,      \* pure-function runs: which function has been applied
    out,          \* result of the first application
    out2,         \* result of applying the same normalizer to out
    meta,         \* result of extract_metadata(text, filename)
    driver,       \* batch runs: which batch driver runs
    files,        \* the list the driver iterates over (txt_files / pdf_files / filenames)
    disk,         \* the input documents as they are on disk, by name
    idx,          \* index in files of the document being processed
    pc,           \* position of the driver inside its loop body
    log,          \* the log records (and printed failure lines) emitted so far
    fs,           \* the files written so far: path -> content
    all_metadata, \* process_all_decrees: the running list of metadata records
    results,      \* ocr_specific_files: the results dictionary
    loc,          \* locals of the document being processed
    summary,      \* process_all_decrees: processing_summary.csv
    attempts,     \* how many times each element of files has been started
    raised,       \* the elements of files in whose processing an exception was raised
    run,          \* process_all_decrees: the runs over the same directories before this one
    successful_extractions  \* process_all_colombian_decrees: the counter it reports

vars == <<family, text, nfrag, applied, out, out2, meta, driver, files, disk, idx, pc,
          log, fs, all_metadata, results, loc, summary, attempts, raised, run,
          successful_extractions>>

pureVars == <<family, text, nfrag, applied, out, out2, meta>>
batchVars == <<driver, files, disk, idx, pc, log, fs, all_metadata, results, loc, summary,
               attempts, raised, run, successful_extractions>>

-----------------------------------------------------------------------------
(* Characters *)

UpperSeq == <<"A","B","C","D","E","F","G","H","I","J","K","L","M","N","O","P","Q",
              "R","S","T","U","V","W","X","Y","Z","Á","É","Í","Ó","Ú","Ñ","Ü">>
LowerSeq == <<"a","b","c","d","e","f","g","h","i","j","k","l","m","n","o","p","q",
              "r","s","t","u","v","w","x","y","z","á","é","í","ó","ú","ñ","ü">>

Range(f) == {f[i] : i \in DOMAIN f}

UpperAscii == {UpperSeq[i] : i \in 1..26}
LowerAscii == {LowerSeq[i] : i \in 1..26}
Upper == Range(UpperSeq)
Lower == Range(LowerSeq)
Letters == Upper \cup Lower
Digits == {"0","1","2","3","4","5","6","7","8","9"}
\* \s restricted to the whitespace characters the model's inputs use
Whitespace == {" ", "\t", "\n"}
\* \w of a Python str pattern: letters (accented ones included), digits, underscore
WordChars == Letters \cup Digits \cup {"_"}
Punct == {".", ",", ";", ":", "!", "?", "(", ")", "-", "\"", "'"}
\* characters outside every class above that the inputs may contain
Others == {"#", "/"}
Alphabet == WordChars \cup Whitespace \cup Punct \cup Others

\* re.IGNORECASE: a literal character matches both of its cases
IC(c) == {c} \cup {LowerSeq[i] : i \in {j \in DOMAIN UpperSeq : UpperSeq[j] = c}}
             \cup {UpperSeq[i] : i \in {j \in DOMAIN LowerSeq : LowerSeq[j] = c}}

-----------------------------------------------------------------------------
(* Patterns.  An item is a character class with a repetition range          *)
(* (max = -1: no upper limit) or the assertion \b.                           *)

Rep(S, lo, hi) == [kind |-> "cls", cls |-> S, min |-> lo, max |-> hi]
One(S)  == Rep(S, 1, 1)
Plus(S) == Rep(S, 1, -1)
Star(S) == Rep(S, 0, -1)
AtLeast(S, n) == Rep(S, n, -1)
WB == [kind |-> "wb", cls |-> {}, min |-> 0, max |-> 0]

Lit(w)   == [i \in 1..Len(w) |-> One({w[i]})]
LitIC(w) == [i \in 1..Len(w) |-> One(IC(w[i]))]

\* an alternative: its items, and for each capture group the items it spans
Alt(its, grps) == [items |-> its, groups |-> grps]

\* template pieces of a replacement string
G(n) == [g |-> n, lit |-> <<>>]
L(w) == [g |-> 0, lit |-> w]

NoMatch == [ok |-> FALSE, ends |-> <<>>]

\* \b at position i (between s[i-1] and s[i])
IsWordAt(s, i) == i >= 1 /\ i <= Len(s) /\ s[i] \in WordChars
WordBoundary(s, i) == IsWordAt(s, i - 1) # IsWordAt(s, i)

RECURSIVE Run(_, _, _, _)
\* number of consecutive characters of class S from position i, at most cap
Run(S, cap, s, i) ==
    IF cap = 0 \/ i > Len(s) \/ s[i] \notin S THEN 0
    ELSE 1 + Run(S, IF cap < 0 THEN cap ELSE cap - 1, s, i + 1)

RECURSIVE MatchFrom(_, _, _, _), TryCount(_, _, _, _, _)
\* items k.. of p against s from position i; ends[j] is the position after item k+j-1
MatchFrom(p, k, s, i) ==
    IF k > Len(p) THEN [ok |-> TRUE, ends |-> <<>>]
    ELSE IF p[k].kind = "wb" THEN
        IF WordBoundary(s, i)
        THEN LET r == MatchFrom(p, k + 1, s, i)
             IN  IF r.ok THEN [ok |-> TRUE, ends |-> <<i>> \o r.ends] ELSE NoMatch
        ELSE NoMatch
    ELSE LET n == Run(p[k].cls, p[k].max, s, i)
         IN  IF n < p[k].min THEN NoMatch ELSE TryCount(p, k, s, i, n)

\* greedy: try n repetitions of item k, then n-1, ... down to its minimum
TryCount(p, k, s, i, n) ==
    LET r == MatchFrom(p, k + 1, s, i + n)
    IN  IF r.ok THEN [ok |-> TRUE, ends |-> <<i + n>> \o r.ends]
        ELSE IF n > p[k].min THEN TryCount(p, k, s, i, n - 1)
        ELSE NoMatch

RECURSIVE MatchAlts(_, _, _, _)
\* the first alternative (from the a-th on) of pattern pat that matches at i
MatchAlts(pat, a, s, i) ==
    IF a > Len(pat) THEN [ok |-> FALSE, alt |-> 0, start |-> i, ends |-> <<>>]
    ELSE LET r == MatchFrom(pat[a].items, 1, s, i)
         IN  IF r.ok THEN [ok |-> TRUE, alt |-> a, start |-> i, ends |-> r.ends]
             ELSE MatchAlts(pat, a + 1, s, i)

MatchAt(pat, s, i) == MatchAlts(pat, 1, s, i)

MatchEnd(m) == IF m.ends = <<>> THEN m.start ELSE m.ends[Len(m.ends)]

\* the text of capture group n of match m
Group(pat, m, s, n) ==
    LET span == pat[m.alt].groups[n]
        from == IF span[1] = 1 THEN m.start ELSE m.ends[span[1] - 1]
    IN  SubSeq(s, from, m.ends[span[2]] - 1)

RECURSIVE Expand(_, _, _, _, _)
Expand(tmpl, j, pat, m, s) ==
    IF j > Len(tmpl) THEN <<>>
    ELSE (IF tmpl[j].g = 0 THEN tmpl[j].lit ELSE Group(pat, m, s, tmpl[j].g))
         \o Expand(tmpl, j + 1, pat, m, s)

RECURSIVE SubFrom(_, _, _, _, _)
SubFrom(pat, tmpl, s, i, acc) ==
    IF i > Len(s) THEN acc
    ELSE LET m == MatchAt(pat, s, i)
         IN  IF m.ok /\ MatchEnd(m) > i
             THEN SubFrom(pat, tmpl, s, MatchEnd(m), acc \o Expand(tmpl, 1, pat, m, s))
             ELSE SubFrom(pat, tmpl, s, i + 1, Append(acc, s[i]))

\* re.sub(pat, tmpl, s): every non-overlapping match, leftmost first, replaced
ReSub(pat, tmpl, s) == SubFrom(pat, tmpl, s, 1, <<>>)

RECURSIVE SearchFrom(_, _, _)
SearchFrom(pat, s, i) ==
    IF i > Len(s) THEN [ok |-> FALSE, alt |-> 0, start |-> i, ends |-> <<>>]
    ELSE LET m == MatchAt(pat, s, i)
         IN  IF m.ok THEN m ELSE SearchFrom(pat, s, i + 1)

\* re.search(pat, s): the leftmost match
ReSearch(pat, s) == SearchFrom(pat, s, 1)

-----------------------------------------------------------------------------
(* str methods *)

RECURSIVE LStrip(_)
LStrip(s) == IF s # <<>> /\ Head(s) \in Whitespace THEN LStrip(Tail(s)) ELSE s
RECURSIVE RStrip(_)
RStrip(s) == IF s # <<>> /\ s[Len(s)] \in Whitespace
             THEN RStrip(SubSeq(s, 1, Len(s) - 1)) ELSE s
\* s.strip()
Strip(s) == RStrip(LStrip(s))

\* len(s.split()): the number of maximal runs of non-whitespace characters
SplitCount(s) ==
    Cardinality({i \in 1..Len(s) :
        s[i] \notin Whitespace /\ (i = 1 \/ s[i - 1] \in Whitespace)})

RECURSIVE CountSep(_, _, _)
\* number of non-overlapping occurrences of sep in s from position i
CountSep(s, sep, i) ==
    IF i + Len(sep) - 1 > Len(s) THEN 0
    ELSE IF SubSeq(s, i, i + Len(sep) - 1) = sep
         THEN 1 + CountSep(s, sep, i + Len(sep))
         ELSE CountSep(s, sep, i + 1)

\* len(s.split(sep))
SplitOnCount(s, sep) == 1 + CountSep(s, sep, 1)

\* s.replace(old, new)
StrReplace(s, old, new) == ReSub(<<Alt(Lit(old), <<>>)>>, <<L(new)>>, s)

-----------------------------------------------------------------------------
(* Words of the patterns *)

W_ARTlCULO     == <<"A","R","T","l","C","U","L","O">>
W_ARTICULO     == <<"A","R","T","I","C","U","L","O">>
W_ARTICULO_ACC == <<"A","R","T","Í","C","U","L","O">>
W_PARAGRAFO     == <<"P","A","R","A","G","R","A","F","O">>
W_PARAGRAFO_ACC == <<"P","A","R","Á","G","R","A","F","O">>
W_CAPITULO     == <<"C","A","P","I","T","U","L","O">>
W_CAPITULO_ACC == <<"C","A","P","Í","T","U","L","O">>
W_TITULO_ACC   == <<"T","Í","T","U","L","O">>
W_DECRETO      == <<"D","E","C","R","E","T","O">>
W_NUMERO_ACC   == <<"N","Ú","M","E","R","O">>
W_mero         == <<"m","e","r","o">>
W_DECRETO_Numero == <<"D","E","C","R","E","T","O"," ","N","ú","m","e","r","o">>
W_CONSIDERANDO == <<"C","O","N","S","I","D","E","R","A","N","D","O">>
W_DECRETA      == <<"D","E","C","R","E","T","A">>
W_DISPONE      == <<"D","I","S","P","O","N","E">>
W_LEY          == <<"L","E","Y">>
W_DE           == <<"D","E">>
NL  == <<"\n">>
NL2 == <<"\n", "\n">>
SP  == <<" ">>

-----------------------------------------------------------------------------
(* DecreeDataLoader.clean_text *)

\* r'\n{3,}'
PatNewlines3 == <<Alt(<<AtLeast({"\n"}, 3)>>, <<>>)>>
\* r'[ \t]+'
PatSpacesTabs == <<Alt(<<Plus({" ", "\t"})>>, <<>>)>>
\* the characters clean_text keeps: \w \s . , ; : ! ? ( ) - " ' and the Spanish letters
LoaderAllowed == WordChars \cup Whitespace \cup Punct
\* r'[^\w\s\.\,\;\:\!\?\(\)\-\"\'\ñÑáéíóúÁÉÍÓÚüÜ]'
PatDisallowed == <<Alt(<<One(Alphabet \ LoaderAllowed)>>, <<>>)>>
\* r'\s+'
PatWhitespace == <<Alt(<<Plus(Whitespace)>>, <<>>)>>

\* clean_text without the collapse of the whitespace left by removed characters
clean_text_no_collapse(t) ==
    LET t1 == ReSub(PatNewlines3, <<L(NL2)>>, t)
        t2 == ReSub(PatSpacesTabs, <<L(SP)>>, t1)
        t3 == ReSub(PatDisallowed, <<L(SP)>>, t2)
    IN  Strip(t3)

clean_text(t) ==
    LET t1 == ReSub(PatNewlines3, <<L(NL2)>>, t)
        t2 == ReSub(PatSpacesTabs, <<L(SP)>>, t1)
        t3 == ReSub(PatDisallowed, <<L(SP)>>, t2)
        t4 == ReSub(PatWhitespace, <<L(SP)>>, t3)
    IN  Strip(t4)

-----------------------------------------------------------------------------
(* OCRExtractor._clean_ocr_text *)

\* the whole word w in the letter case it is written in
WholeWordCased(w) == <<Alt(<<WB>> \o Lit(w) \o <<WB>>, <<>>)>>
\* r'\bw\b', IGNORECASE
WholeWordIC(w) == <<Alt(<<WB>> \o LitIC(w) \o <<WB>>, <<>>)>>
\* r'\bDECRETO\s+N[úu]mero\b', IGNORECASE
PatDecretoNumero ==
    <<Alt(<<WB>> \o LitIC(W_DECRETO)
          \o <<Plus(Whitespace), One(IC("N")), One(IC("ú") \cup IC("u"))>>
          \o LitIC(W_mero) \o <<WB>>, <<>>)>>
SentenceEnd == {".", "!", "?"}
SentenceStart == UpperAscii \cup {"Á", "É", "Í", "Ó", "Ú", "Ñ"}
\* r'([.!?])\s*([A-ZÁÉÍÓÚÑ])'
PatSentence ==
    <<Alt(<<One(SentenceEnd), Star(Whitespace), One(SentenceStart)>>,
          << <<1, 1>>, <<3, 3>> >>)>>
\* r'([.!?])\s*(\d+\.)'
PatNumbered ==
    <<Alt(<<One(SentenceEnd), Star(Whitespace), Plus(Digits), One({"."})>>,
          << <<1, 1>>, <<3, 4>> >>)>>
\* one alternative of r'\b(ARTÍCULO|PARÁGRAFO|CAPÍTULO|TÍTULO)\s+(\d+)', IGNORECASE
StructAlt(w) ==
    Alt(<<WB>> \o LitIC(w) \o <<Plus(Whitespace), Plus(Digits)>>,
        << <<2, Len(w) + 1>>, <<Len(w) + 3, Len(w) + 3>> >>)
\* the structural rule without its last keyword
PatStructural_no_titulo ==
    <<StructAlt(W_ARTICULO_ACC), StructAlt(W_PARAGRAFO_ACC), StructAlt(W_CAPITULO_ACC)>>
PatStructural ==
    <<StructAlt(W_ARTICULO_ACC), StructAlt(W_PARAGRAFO_ACC),
      StructAlt(W_CAPITULO_ACC), StructAlt(W_TITULO_ACC)>>
\* one alternative of r'\b(CONSIDERANDO|DECRETA|DISPONE):', IGNORECASE
ClauseAlt(w) ==
    Alt(<<WB>> \o LitIC(w) \o <<One({":"})>>, << <<2, Len(w) + 1>> >>)
PatClause == <<ClauseAlt(W_CONSIDERANDO), ClauseAlt(W_DECRETA), ClauseAlt(W_DISPONE)>>
OcrPunct == {".", ",", ":", ";", "!", "?"}
\* r'\s+([.,:;!?])'
PatSpaceBeforePunct == <<Alt(<<Plus(Whitespace), One(OcrPunct)>>, << <<2, 2>> >>)>>
OcrLetters == UpperAscii \cup LowerAscii
                \cup {"á", "é", "í", "ó", "ú", "ñ", "Á", "É", "Í", "Ó", "Ú", "Ñ"}
\* r'([.,:;!?])([A-Za-záéíóúñÁÉÍÓÚÑ])'
PatPunctLetter == <<Alt(<<One(OcrPunct), One(OcrLetters)>>, << <<1, 1>>, <<2, 2>> >>)>>
\* r'\n{4,}'
PatNewlines4 == <<Alt(<<AtLeast({"\n"}, 4)>>, <<>>)>>
\* r' +\n'
PatTrailingSpaces == <<Alt(<<Plus({" "}), One({"\n"})>>, <<>>)>>
\* r'\n +'
PatLeadingSpaces == <<Alt(<<One({"\n"}), Plus({" "})>>, <<>>)>>

_clean_ocr_text(t) ==
    IF Strip(t) = <<>> THEN t
    ELSE
    LET a1 == ReSub(WholeWordIC(W_ARTlCULO), <<L(W_ARTICULO_ACC)>>, t)
        a2 == ReSub(WholeWordIC(W_ARTICULO), <<L(W_ARTICULO_ACC)>>, a1)
        a3 == ReSub(PatDecretoNumero, <<L(W_DECRETO_Numero)>>, a2)
        a4 == ReSub(WholeWordIC(W_PARAGRAFO), <<L(W_PARAGRAFO_ACC)>>, a3)
        a5 == ReSub(WholeWordIC(W_CAPITULO), <<L(W_CAPITULO_ACC)>>, a4)
        b1 == ReSub(PatSentence, <<G(1), L(NL), G(2)>>, a5)
        b2 == ReSub(PatNumbered, <<G(1), L(NL), G(2)>>, b1)
        c1 == ReSub(PatStructural, <<L(NL2), G(1), L(SP), G(2)>>, b2)
        c2 == ReSub(PatClause, <<L(NL2), G(1), L(<<":">>)>>, c1)
        d1 == ReSub(PatSpaceBeforePunct, <<G(1)>>, c2)
        d2 == ReSub(PatPunctLetter, <<G(1), L(SP), G(2)>>, d1)
        e1 == ReSub(PatNewlines4, <<L(NL2)>>, d2)
        e2 == ReSub(PatSpacesTabs, <<L(SP)>>, e1)
        e3 == ReSub(PatTrailingSpaces, <<L(NL)>>, e2)
        e4 == ReSub(PatLeadingSpaces, <<L(NL)>>, e3)
    IN  Strip(e4)

-----------------------------------------------------------------------------
(* PDFExtractor._clean_extracted_text (pdfplumber) *)

AsciiLetters == UpperAscii \cup LowerAscii
\* r'([a-z])([A-Z])'
PatLowerUpper == <<Alt(<<One(LowerAscii), One(UpperAscii)>>, << <<1, 1>>, <<2, 2>> >>)>>
\* r'(\d)([A-Za-z])'
PatDigitLetter == <<Alt(<<One(Digits), One(AsciiLetters)>>, << <<1, 1>>, <<2, 2>> >>)>>
\* r'([A-Za-z])(\d)'
PatLetterDigit == <<Alt(<<One(AsciiLetters), One(Digits)>>, << <<1, 1>>, <<2, 2>> >>)>>
\* r'\n\d+\n'
PatPageNumber == <<Alt(<<One({"\n"}), Plus(Digits), One({"\n"})>>, <<>>)>>
\* r'\n\s*\d+\s*\n'
PatSpacedPageNumber ==
    <<Alt(<<One({"\n"}), Star(Whitespace), Plus(Digits), Star(Whitespace), One({"\n"})>>,
          <<>>)>>
\* r'([a-záéíóúñ])([AÁÉÍÓÚÑ])'
PatSpanishCapital ==
    <<Alt(<<One(LowerAscii \cup {"á", "é", "í", "ó", "ú", "ñ"}),
            One({"A", "Á", "É", "Í", "Ó", "Ú", "Ñ"})>>, << <<1, 1>>, <<2, 2>> >>)>>

_clean_extracted_text(t) ==
    IF Strip(t) = <<>> THEN t
    ELSE
    LET t1 == ReSub(PatNewlines3, <<L(NL2)>>, t)
        t2 == ReSub(PatSpacesTabs, <<L(SP)>>, t1)
        t3 == ReSub(PatLowerUpper, <<G(1), L(SP), G(2)>>, t2)
        t4 == ReSub(PatDigitLetter, <<G(1), L(SP), G(2)>>, t3)
        t5 == ReSub(PatLetterDigit, <<G(1), L(SP), G(2)>>, t4)
        t6 == ReSub(PatPageNumber, <<L(NL)>>, t5)
        t7 == ReSub(PatSpacedPageNumber, <<L(NL)>>, t6)
        t8 == ReSub(PatSpanishCapital, <<G(1), L(SP), G(2)>>, t7)
        t9 == ReSub(PatWhitespace, <<L(SP)>>, t8)
    IN  Strip(t9)

-----------------------------------------------------------------------------
(* DecreeDataLoader.extract_metadata *)

\* Python's None for number and year
None == <<"None">>

\* r'DECRETO\s+(?:NÚMERO\s+)?(\d+)\s+DE\s+(\d{4})', IGNORECASE: the optional group
\* is tried first, then skipped
decreto_pattern ==
    <<Alt(LitIC(W_DECRETO) \o <<Plus(Whitespace)>> \o LitIC(W_NUMERO_ACC)
          \o <<Plus(Whitespace), Plus(Digits), Plus(Whitespace)>> \o LitIC(W_DE)
          \o <<Plus(Whitespace), Rep(Digits, 4, 4)>>,
          << <<16, 16>>, <<21, 21>> >>),
      Alt(LitIC(W_DECRETO)
          \o <<Plus(Whitespace), Plus(Digits), Plus(Whitespace)>> \o LitIC(W_DE)
          \o <<Plus(Whitespace), Rep(Digits, 4, 4)>>,
          << <<9, 9>>, <<14, 14>> >>)>>
\* r'LEY\s+(\d+)\s+DE\s+(\d{4})', IGNORECASE
ley_pattern ==
    <<Alt(LitIC(W_LEY)
          \o <<Plus(Whitespace), Plus(Digits), Plus(Whitespace)>> \o LitIC(W_DE)
          \o <<Plus(Whitespace), Rep(Digits, 4, 4)>>,
          << <<5, 5>>, <<10, 10>> >>)>>

\* extract_metadata with the two rules in the opposite priority
extract_metadata_law_first(t, filename) ==
    LET base == [filename |-> filename,
                 word_count |-> SplitCount(t),
                 char_count |-> Len(t),
                 paragraph_count |-> SplitOnCount(t, NL2)]
        decreto_match == ReSearch(decreto_pattern, t)
        ley_match == ReSearch(ley_pattern, t)
    IN  IF ley_match.ok
        THEN base @@ [document_type |-> "LEY",
                      number |-> Group(ley_pattern, ley_match, t, 1),
                      year |-> Group(ley_pattern, ley_match, t, 2)]
        ELSE IF decreto_match.ok
        THEN base @@ [document_type |-> "DECRETO",
                      number |-> Group(decreto_pattern, decreto_match, t, 1),
                      year |-> Group(decreto_pattern, decreto_match, t, 2)]
        ELSE base @@ [document_type |-> "UNKNOWN", number |-> None, year |-> None]

extract_metadata(t, filename) ==
    LET base == [filename |-> filename,
                 word_count |-> SplitCount(t),
                 char_count |-> Len(t),
                 paragraph_count |-> SplitOnCount(t, NL2)]
        decreto_match == ReSearch(decreto_pattern, t)
        ley_match == ReSearch(ley_pattern, t)
    IN  IF decreto_match.ok
        THEN base @@ [document_type |-> "DECRETO",
                      number |-> Group(decreto_pattern, decreto_match, t, 1),
                      year |-> Group(decreto_pattern, decreto_match, t, 2)]
        ELSE IF ley_match.ok
        THEN base @@ [document_type |-> "LEY",
                      number |-> Group(ley_pattern, ley_match, t, 1),
                      year |-> Group(ley_pattern, ley_match, t, 2)]
        ELSE base @@ [document_type |-> "UNKNOWN", number |-> None, year |-> None]

-----------------------------------------------------------------------------
(* Runs of the pure functions: an input string is typed fragment by         *)
(* fragment, then one function is applied to it.                            *)

\* longest input typed character by character
MaxChars == 7
\* largest number of fragments of a normalizer input
MaxFrags == 4
\* largest number of fragments of a metadata input
MaxMetaFrags == 3

\* characters of the inputs typed one by one: a letter, a space, a newline
TypedChars == {<<"a">>, <<" ">>, <<"\n">>}
\* fragments of the normalizer inputs
NormFrags == {<<" ">>, <<"\t">>, <<"\n">>, <<".">>, <<":">>, <<"a">>, <<"#">>,
              <<"1">>, W_DECRETA}
\* fragments of the metadata inputs
MetaFrags == {<<" ">>, <<"x">>, <<"L","E","Y"," ","4","8"," ","D","E"," ","1","9","6","8">>,
              <<"l","e","y"," ">>,
              <<"D","E","C","R","E","T","O"," ","N","Ú","M","E","R","O"," ","3","3","9","8",
                " ","D","E"," ","1","9","6","8">>,
              <<"d","e","c","r","e","t","o","\n">>, <<"n","ú","m","e","r","o"," ">>,
              <<"7"," ","d","e"," ">>, <<"1","9","8">>, <<"1","9","8","9">>}

Normalizers == {"clean_text", "_clean_ocr_text", "_clean_extracted_text"}
\* the filename handed to extract_metadata
DocName == <<"d",".","t","x","t">>

PureIdle ==
    /\ text = <<>> /\ nfrag = 0 /\ applied = "none"
    /\ out = None /\ out2 = None /\ meta = None

BatchIdle ==
    /\ driver = "none" /\ files = <<>> /\ disk = <<>> /\ idx = 0 /\ pc = "idle"
    /\ log = <<>> /\ fs = <<>> /\ all_metadata = <<>> /\ results = <<>>
    /\ loc = <<>> /\ attempts = <<>> /\ raised = {} /\ run = 0 /\ successful_extractions = 0
    /\ summary = [exists |-> FALSE, rows |-> <<>>]

Type(frags, bound) ==
    /\ applied = "none"
    /\ nfrag < bound
    /\ \E f \in frags : text' = text \o f
    /\ nfrag' = nfrag + 1
    /\ UNCHANGED <<family, applied, out, out2, meta>>
    /\ UNCHANGED batchVars

TypeChar == family = "chars" /\ Type(TypedChars, MaxChars)
TypeFragment == family = "frags" /\ Type(NormFrags, MaxFrags)
TypeMetaFragment == family = "meta" /\ Type(MetaFrags, MaxMetaFrags)

Apply(fn, result) ==
    /\ applied = "none"
    /\ applied' = fn
    /\ out' = result
    /\ UNCHANGED <<family, text, nfrag, out2, meta>>
    /\ UNCHANGED batchVars

ApplyCleanText == Apply("clean_text", clean_text(text))
ApplyCleanOcr == Apply("_clean_ocr_text", _clean_ocr_text(text))
ApplyCleanPdf == Apply("_clean_extracted_text", _clean_extracted_text(text))

\* the same normalizer applied to its own output
CleanAgain ==
    /\ applied \in {"clean_text", "_clean_ocr_text"}
    /\ out2 = None
    /\ out2' = IF applied = "clean_text" THEN clean_text(out) ELSE _clean_ocr_text(out)
    /\ UNCHANGED <<family, text, nfrag, applied, out, meta>>
    /\ UNCHANGED batchVars

ApplyExtractMetadata ==
    /\ applied = "none"
    /\ applied' = "extract_metadata"
    /\ meta' = extract_metadata(text, DocName)
    /\ UNCHANGED <<family, text, nfrag, out, out2>>
    /\ UNCHANGED batchVars

InitNorm == PureIdle /\ BatchIdle /\ family \in {"chars", "frags"}
NextNorm ==
    \/ TypeChar
    \/ TypeFragment
    \/ ApplyCleanText
    \/ ApplyCleanOcr
    \/ ApplyCleanPdf
    \/ CleanAgain
SpecNorm == InitNorm /\ [][NextNorm]_vars

InitMeta == PureIdle /\ BatchIdle /\ family = "meta"
NextMeta ==
    \/ TypeMetaFragment
    \/ ApplyExtractMetadata
SpecMeta == InitMeta /\ [][NextMeta]_vars

\* largest number of fragments of an input drawn from one of the families below
MaxFamilyFrags == 4

W_artlculo == <<"a","r","t","l","c","u","l","o">>
W_articulo == <<"a","r","t","i","c","u","l","o">>
\* inputs around the structural keywords followed by a number
StructureFrags == {W_ARTICULO, W_artlculo, W_TITULO_ACC, <<" ">>, <<"\n">>, <<"1">>, <<".">>}
\* inputs around the misrecognized keyword forms and their word boundaries
MisreadFrags == {W_ARTlCULO, W_articulo, W_PARAGRAFO, W_CAPITULO, <<" ">>, <<".">>}
\* inputs around punctuation marks and the letters that follow them
PunctFrags == {<<".">>, <<",">>, <<" ">>, <<"\n">>, <<"a">>, <<"A">>, <<"ü">>}
\* inputs around lowercase/uppercase and digit/letter boundaries
CaseFrags == {<<"a">>, <<"B">>, <<"á">>, <<"Á">>, <<"1">>, <<" ">>, <<"\n">>}
\* inputs around the characters inside and outside the allow-list of clean_text
SymbolFrags == {<<"a">>, <<"ñ">>, <<"1">>, <<".">>, <<"#">>, <<"_">>, <<" ">>}
\* inputs of clean_text with characters it removes and whitespace it collapses
DirtFrags == {<<"a">>, <<"#">>, <<".">>, <<" ">>, <<"\t">>, <<"\n">>}
\* inputs of _clean_extracted_text with digit runs on lines of their own
PageFrags == {<<"\n", " ", "1">>, <<"\n", "1">>, <<"\n">>, <<"1">>, <<"a">>, <<" ">>}

Families == {"structure", "misread", "punct", "case", "symbols", "dirt", "pages"}
FamilyFrags(f) ==
    CASE f = "structure" -> StructureFrags
      [] f = "misread"   -> MisreadFrags
      [] f = "punct"     -> PunctFrags
      [] f = "case"      -> CaseFrags
      [] f = "dirt"      -> DirtFrags
      [] f = "pages"     -> PageFrags
      [] OTHER           -> SymbolFrags

TypeFamilyFragment == family \in Families /\ Type(FamilyFrags(family), MaxFamilyFrags)

InitFamily(f) == PureIdle /\ BatchIdle /\ family = f

NextOcrText ==
    \/ TypeFamilyFragment
    \/ ApplyCleanOcr
\* _clean_ocr_text on inputs around structural keywords, misread keywords, punctuation
InitStructure == InitFamily("structure")
SpecStructure == InitStructure /\ [][NextOcrText]_vars
InitMisread == InitFamily("misread")
SpecMisread == InitMisread /\ [][NextOcrText]_vars
InitPunct == InitFamily("punct")
SpecPunct == InitPunct /\ [][NextOcrText]_vars

NextPdfText ==
    \/ TypeFamilyFragment
    \/ ApplyCleanPdf
\* _clean_extracted_text on inputs around case and digit boundaries
InitCase == InitFamily("case")
SpecCase == InitCase /\ [][NextPdfText]_vars
\* _clean_extracted_text on inputs with page-number lines
InitPages == InitFamily("pages")
SpecPages == InitPages /\ [][NextPdfText]_vars

NextLoaderText ==
    \/ TypeFamilyFragment
    \/ ApplyCleanText
\* clean_text on inputs around the allow-list
InitSymbols == InitFamily("symbols")
SpecSymbols == InitSymbols /\ [][NextLoaderText]_vars

NextTwice ==
    \/ TypeFamilyFragment
    \/ ApplyCleanText
    \/ CleanAgain
\* clean_text applied to an input and then to its own output
InitTwice == InitFamily("dirt")
SpecTwice == InitTwice /\ [][NextTwice]_vars

-----------------------------------------------------------------------------
(* Properties of extract_metadata *)

RECURSIVE SkipWhile(_, _, _)
\* the first position from i on whose character is not in S
SkipWhile(S, t, i) == IF i <= Len(t) /\ t[i] \in S THEN SkipWhile(S, t, i + 1) ELSE i

\* the word w, in any letter case, stands at position i of t
WordICAt(t, i, w) ==
    /\ i + Len(w) - 1 <= Len(t)
    /\ \A k \in 1..Len(w) : t[i + k - 1] \in IC(w[k])

\* digits, whitespace, DE, whitespace, 4 digits from position b on
NumberYearAt(t, b) ==
    LET c == SkipWhile(Digits, t, b)
        d == SkipWhile(Whitespace, t, c)
        e == SkipWhile(Whitespace, t, d + 2)
        found == /\ c > b /\ d > c /\ WordICAt(t, d, W_DE) /\ e > d + 2
                 /\ e + 3 <= Len(t)
                 /\ \A k \in 0..3 : t[e + k] \in Digits
    IN  [ok |-> found,
         number |-> IF found THEN SubSeq(t, b, c - 1) ELSE None,
         year |-> IF found THEN SubSeq(t, e, e + 3) ELSE None]

\* a decree header starts at position i:
\* DECRETO, whitespace, optionally NÚMERO and whitespace, then number and year
DecreeAt(t, i) ==
    LET b == SkipWhile(Whitespace, t, i + Len(W_DECRETO))
        n == SkipWhile(Whitespace, t, b + Len(W_NUMERO_ACC))
        long == IF WordICAt(t, b, W_NUMERO_ACC) /\ n > b + Len(W_NUMERO_ACC)
                THEN NumberYearAt(t, n) ELSE NumberYearAt(t, b)
    IN  IF WordICAt(t, i, W_DECRETO) /\ b > i + Len(W_DECRETO)
        THEN long
        ELSE [ok |-> FALSE, number |-> None, year |-> None]

\* a law header starts at position i: LEY, whitespace, then number and year
LawAt(t, i) ==
    LET b == SkipWhile(Whitespace, t, i + Len(W_LEY))
    IN  IF WordICAt(t, i, W_LEY) /\ b > i + Len(W_LEY)
        THEN NumberYearAt(t, b)
        ELSE [ok |-> FALSE, number |-> None, year |-> None]

DecreeStarts(t) == {i \in 1..Len(t) : DecreeAt(t, i).ok}
LawStarts(t) == {i \in 1..Len(t) : LawAt(t, i).ok}
Min(S) == CHOOSE x \in S : \A y \in S : x <= y

\* C1: extract_metadata is a two-rule classifier with fixed priority: a decree
\* header anywhere in the text gives DECRETO with the number and year of the
\* leftmost decree header, even when a law header stands earlier; otherwise a law
\* header gives LEY with its number and year; otherwise UNKNOWN with number and
\* year None.
C1_MetadataClassifier ==
    applied = "extract_metadata" =>
        LET D == DecreeStarts(text)
            W == LawStarts(text)
        IN  IF D # {}
            THEN /\ meta.document_type = "DECRETO"
                 /\ meta.number = DecreeAt(text, Min(D)).number
                 /\ meta.year = DecreeAt(text, Min(D)).year
            ELSE IF W # {}
            THEN /\ meta.document_type = "LEY"
                 /\ meta.number = LawAt(text, Min(W)).number
                 /\ meta.year = LawAt(text, Min(W)).year
            ELSE /\ meta.document_type = "UNKNOWN"
                 /\ meta.number = None
                 /\ meta.year = None

\* a text with a law header before a decree header has been classified DECRETO 3398 / 1968
C1_Witness ==
    /\ applied = "extract_metadata"
    /\ DecreeStarts(text) # {} /\ LawStarts(text) # {}
    /\ Min(LawStarts(text)) < Min(DecreeStarts(text))
    /\ meta.document_type = "DECRETO"
    /\ meta.number = <<"3","3","9","8">> /\ meta.year = <<"1","9","6","8">>

-----------------------------------------------------------------------------
(* Properties of the normalizers *)

\* s holds n consecutive characters c
HasRun(s, c, n) == \E i \in 1..(Len(s) - n + 1) : \A k \in 0..(n - 1) : s[i + k] = c

RECURSIVE RunsFrom(_, _, _)
\* the lengths of the maximal runs of character c in s, in order, from position i
RunsFrom(s, c, i) ==
    IF i > Len(s) THEN <<>>
    ELSE IF s[i] = c
         THEN LET n == Run({c}, -1, s, i) IN <<n>> \o RunsFrom(s, c, i + n)
         ELSE RunsFrom(s, c, i + 1)
Runs(s, c) == RunsFrom(s, c, 1)

\* C6: the output of each normalizer holds no tab and no run of two or more
\* spaces, for every input, whitespace-only input included.
C6_NoTabNoSpaceRun ==
    applied \in Normalizers =>
        /\ \A i \in 1..Len(out) : out[i] # "\t"
        /\ ~HasRun(out, " ", 2)

\* C7: for an input of _clean_ocr_text with a non-whitespace character and a run
\* of 3 or more newlines, the output holds no run of more than 2 newlines.
C7_OcrAtMostTwoNewlines ==
    (applied = "_clean_ocr_text" /\ Strip(text) # <<>> /\ HasRun(text, "\n", 3))
        => ~HasRun(out, "\n", 3)

\* characters clean_text keeps as paragraph content
LoaderContent == LoaderAllowed \ Whitespace

\* two non-empty paragraphs of t are separated by n or more newlines and nothing else
ParagraphsSeparatedBy(t, n) ==
    \E i, j \in 1..Len(t) :
        /\ j - i > n
        /\ t[i] \in LoaderContent /\ t[j] \in LoaderContent
        /\ \A k \in (i + 1)..(j - 1) : t[k] = "\n"

\* C8: clean_text preserves paragraph structure: paragraphs separated by a blank
\* line stay separated by a blank line, and a run of 3 or more newlines between
\* two paragraphs becomes exactly 2 newlines.
C8_CleanTextKeepsParagraphs ==
    (applied = "clean_text" /\ ParagraphsSeparatedBy(text, 2))
        => (HasRun(out, "\n", 2) /\ ~HasRun(out, "\n", 3))

\* a keyword break would be inserted into s by _clean_ocr_text
HasKeywordBreak(s) == ReSearch(PatStructural, s).ok \/ ReSearch(PatClause, s).ok

\* C9: applying _clean_ocr_text to its own output y leaves every run of newlines
\* and every run of spaces of y unchanged (stated for the outputs into which no
\* keyword break is inserted again).
C9_OcrSecondPassKeepsRuns ==
    (applied = "_clean_ocr_text" /\ out2 # None /\ ~HasKeywordBreak(out))
        => (Runs(out2, "\n") = Runs(out, "\n") /\ Runs(out2, " ") = Runs(out, " "))

\* C10: in the output of _clean_ocr_text every clause keyword followed by a colon
\* (CONSIDERANDO:, DECRETA:, DISPONE:) is at the start of the output or is
\* preceded by a blank line.
C10_ClauseKeywordStartsParagraph ==
    applied = "_clean_ocr_text" =>
        \A i \in 1..Len(out) :
            MatchAt(PatClause, out, i).ok =>
                \/ i = 1
                \/ (i >= 3 /\ out[i - 1] = "\n" /\ out[i - 2] = "\n")

StructuralKeywords == {W_ARTICULO_ACC, W_PARAGRAFO_ACC, W_CAPITULO_ACC, W_TITULO_ACC}
\* the whole word w, in any letter case, starts at position i of s
KeywordAt(s, i, w) == WordICAt(s, i, w) /\ WordBoundary(s, i)
\* position i of s is the start of s or follows a blank line
StartsParagraph(s, i) == i = 1 \/ (i >= 3 /\ s[i - 1] = "\n" /\ s[i - 2] = "\n")

\* C11: in the output of _clean_ocr_text every structural keyword (ARTÍCULO,
\* PARÁGRAFO, CAPÍTULO, TÍTULO, any letter case) followed by whitespace and a
\* number is at the start of the output or preceded by a blank line, and
\* exactly one space separates keyword and number.
C11_StructuralKeywordStartsParagraph ==
    applied = "_clean_ocr_text" =>
        \A w \in StructuralKeywords : \A i \in 1..Len(out) :
            LET j == i + Len(w)
                k == SkipWhile(Whitespace, out, j)
            IN  (KeywordAt(out, i, w) /\ k > j /\ k <= Len(out) /\ out[k] \in Digits)
                    => (StartsParagraph(out, i) /\ k = j + 1 /\ out[j] = " ")

C11_Witness ==
    /\ applied = "_clean_ocr_text"
    /\ text = <<".">> \o W_ARTICULO \o <<"\n", "1">>
    /\ out = <<".", "\n", "\n", "\n">> \o W_ARTICULO_ACC \o <<" ", "1">>

\* C12: in the output of _clean_ocr_text (input with non-whitespace content) no
\* whitespace character immediately precedes one of the marks . , : ; ! ? and
\* every such mark that is followed by a letter is separated from that letter
\* by exactly one space.
C12_PunctuationSpacing ==
    (applied = "_clean_ocr_text" /\ Strip(text) # <<>>) =>
        \A i \in 1..Len(out) :
            out[i] \in OcrPunct =>
                /\ i > 1 => out[i - 1] \notin Whitespace
                /\ LET k == SkipWhile({" "}, out, i + 1)
                   IN  (k <= Len(out) /\ out[k] \in Letters) => k = i + 2

\* the allow-list as stated: letters, digits, whitespace, . , ; : ! ? ( ) - " '
StatedAllowList == Letters \cup Digits \cup Whitespace \cup Punct
\* t with every character outside the stated allow-list replaced by a space
SpacedOut(t) == [i \in 1..Len(t) |-> IF t[i] \in StatedAllowList THEN t[i] ELSE " "]
RECURSIVE Squeeze(_, _)
\* t from position i on, every maximal run of whitespace replaced by one space
Squeeze(t, i) ==
    IF i > Len(t) THEN <<>>
    ELSE IF t[i] \in Whitespace
         THEN <<" ">> \o Squeeze(t, SkipWhile(Whitespace, t, i))
         ELSE <<t[i]>> \o Squeeze(t, i + 1)

\* C13: every character of the output of clean_text belongs to the allow-list
\* (letters, digits, whitespace, . , ; : ! ? ( ) - " '), and every input
\* character outside it has been replaced by a space: the output is the input
\* with those characters turned into spaces, whitespace runs collapsed, stripped.
C13_AllowList ==
    applied = "clean_text" =>
        /\ \A i \in 1..Len(out) : out[i] \in StatedAllowList
        /\ out = Strip(Squeeze(SpacedOut(text), 1))

\* the lowercase letters a-z á é í ó ú ñ, the uppercase letters A-Z Á É Í Ó Ú Ñ
StatedLower == LowerAscii \cup {"á", "é", "í", "ó", "ú", "ñ"}
StatedUpper == UpperAscii \cup {"Á", "É", "Í", "Ó", "Ú", "Ñ"}

\* C17: for an input with non-whitespace content, the output of the pdfplumber
\* _clean_extracted_text holds no lowercase letter (a-z, á é í ó ú ñ) directly
\* followed by an uppercase letter (A-Z, Á É Í Ó Ú Ñ) and no digit directly
\* next to an ASCII letter.
C17_CaseBoundariesSpaced ==
    (applied = "_clean_extracted_text" /\ Strip(text) # <<>>) =>
        \A i \in 1..(Len(out) - 1) :
            /\ ~(out[i] \in StatedLower /\ out[i + 1] \in StatedUpper)
            /\ ~(out[i] \in Digits /\ out[i + 1] \in AsciiLetters)
            /\ ~(out[i] \in AsciiLetters /\ out[i + 1] \in Digits)

\* the misrecognized forms of each keyword
MisreadForms ==
    {<<W_ARTlCULO, W_ARTICULO_ACC>>, <<W_ARTICULO, W_ARTICULO_ACC>>,
     <<W_PARAGRAFO, W_PARAGRAFO_ACC>>, <<W_CAPITULO, W_CAPITULO_ACC>>}
\* the positions of s at which w stands as a whole word, in any letter case
WholeWordsAt(s, w) ==
    {i \in 1..Len(s) : KeywordAt(s, i, w) /\ WordBoundary(s, i + Len(w))}
\* the number of whole-word occurrences in s of any of the words ws
WholeWordCount(s, ws) == Cardinality(UNION {WholeWordsAt(s, w) : w \in ws})

\* C18: the output of _clean_ocr_text holds no whole-word occurrence, in any
\* letter case, of ARTlCULO, ARTICULO, PARAGRAFO or CAPITULO; each occurrence
\* of the input has become the accented keyword.
C18_NoMisreadKeyword ==
    applied = "_clean_ocr_text" =>
        /\ \A f \in MisreadForms : WholeWordsAt(out, f[1]) = {}
        /\ \A acc \in {f[2] : f \in MisreadForms} :
               WholeWordCount(out, {acc}) =
                   WholeWordCount(text, {acc} \cup {f[1] : f \in {g \in MisreadForms : g[2] = acc}})

C18_Witness ==
    /\ applied = "_clean_ocr_text"
    /\ text = W_articulo \o <<" ">> \o W_CAPITULO \o W_PARAGRAFO
    /\ out = W_ARTICULO_ACC \o <<" ">> \o W_CAPITULO \o W_PARAGRAFO

\* C25: clean_text applied to its own output returns that output unchanged.
C25_CleanTextIdempotent ==
    (applied = "clean_text" /\ out2 # None) => out2 = out

C25_Witness ==
    /\ applied = "clean_text"
    /\ text = <<"a", "#", "\n", "a">>
    /\ out = <<"a", " ", "a">>
    /\ out2 = out

\* the characters of s that are not whitespace, in order
NonWhitespace(s) == SelectSeq(s, LAMBDA c : c \notin Whitespace)
RECURSIVE Lines(_)
\* s.split('\n')
Lines(s) ==
    IF \A k \in DOMAIN s : s[k] # "\n" THEN <<s>>
    ELSE LET k == CHOOSE k \in DOMAIN s : s[k] = "\n" /\ \A j \in 1..(k - 1) : s[j] # "\n"
         IN  <<SubSeq(s, 1, k - 1)>> \o Lines(SubSeq(s, k + 1, Len(s)))
\* a digit run, possibly with blanks around it, and nothing else
IsPageNumber(l) ==
    LET c == Strip(l) IN c # <<>> /\ \A k \in DOMAIN c : c[k] \in Digits
RECURSIVE Flatten(_)
Flatten(ls) == IF ls = <<>> THEN <<>> ELSE Head(ls) \o Flatten(Tail(ls))
\* the non-whitespace characters of s outside the digit runs that stand alone
\* between two newlines
WithoutPageNumbers(s) ==
    LET ls == Lines(s)
        kept == [i \in DOMAIN ls |->
                    IF 1 < i /\ i < Len(ls) /\ IsPageNumber(ls[i]) THEN <<>> ELSE ls[i]]
    IN  NonWhitespace(Flatten(kept))

\* C26: the non-whitespace characters of the output of _clean_extracted_text
\* are those of the input, in order, without the digit runs that stand alone
\* between two newlines.
C26_OnlySpacingChanges ==
    applied = "_clean_extracted_text" => NonWhitespace(out) = WithoutPageNumbers(text)

\* C19: every normalizer returns the empty text for the empty text, and the
\* result of every normalizer, on every input, has no leading and no trailing
\* whitespace.
C19_EmptyAndStripped ==
    applied \in Normalizers =>
        /\ text = <<>> => out = <<>>
        /\ out = <<>> \/ (out[1] \notin Whitespace /\ out[Len(out)] \notin Whitespace)

-----------------------------------------------------------------------------
(* Batch runs: the file system, the log and the locals of a document *)

\* largest number of documents of a batch
MaxDocs == 2
\* largest number of pages of the PDF of a single extraction call
MaxPages == 3

\* file names of the text documents, of the PDFs
TxtNames == {<<"a",".","t","x","t">>, <<"b",".","t","x","t">>, <<"a",".","t","x","t",".","t","x","t">>}
PdfNames == {<<"a",".","p","d","f">>, <<"b",".","p","d","f">>, <<"c",".","P","D","F">>}

\* what reading a text document does: it decodes as UTF-8; only as latin-1; the
\* file is gone when it is opened; the fallback read fails too; open() fails
LoadKinds == {"utf8", "latin1", "missing", "undecodable", "unreadable"}
\* the text of a readable document
DocText(name) ==
    IF Len(name) > 5
    THEN <<"a","\t"," ","b">>
    ELSE IF name[1] = "a"
    THEN <<"D","e","c","r","e","t","o"," ","7"," ","d","e"," ","1","9","8","9","\n","\n","\n","x"," ","#">>
    ELSE <<"x","\n","\n","y">>
TxtDocs(name) == {[kind |-> k, content |-> DocText(name)] : k \in LoadKinds}

\* what a page of a PDF yields: an exception, no text, whitespace only, text
PageKinds == {"raises", "empty", "blank", "text"}
\* what opening / rasterizing the PDF does (no_poppler: OCR only)
OpenKinds == {"ok", "fails", "no_poppler"}
DigitSeq == <<"0","1","2","3","4","5","6","7","8","9">>
PageDigit(p) == DigitSeq[p + 1]
\* the text of page p, by the page's kind
PageText(kind, p) ==
    CASE kind = "text"  -> <<"p", PageDigit(p)>>
      [] kind = "blank" -> <<" ", "\n">>
      [] OTHER          -> <<>>
SeqsUpTo(S, n) == UNION {[1..k -> S] : k \in 0..n}
\* the PDFs of a batch: at most one page
BatchPdfDocs ==
    {[exists |-> FALSE, open |-> "ok", pages |-> <<>>]}
    \cup {[exists |-> TRUE, open |-> o, pages |-> <<>>] : o \in {"fails", "no_poppler"}}
    \cup {[exists |-> TRUE, open |-> "ok", pages |-> pp] : pp \in SeqsUpTo(PageKinds, 1)}
\* the PDF of a single extraction call: up to MaxPages pages of every kind
SinglePdfDocs ==
    {[exists |-> FALSE, open |-> "ok", pages |-> <<>>]}
    \cup {[exists |-> TRUE, open |-> o, pages |-> <<>>] : o \in {"fails", "no_poppler"}}
    \cup {[exists |-> TRUE, open |-> "ok", pages |-> pp] : pp \in SeqsUpTo(PageKinds, MaxPages)}

\* outcomes of open(path, 'w') followed by write(content)
WriteOutcomes == {"ok", "open_fails", "write_fails"}

Put(f, p, c) == [x \in (DOMAIN f) \cup {p} |-> IF x = p THEN c ELSE f[x]]
\* the files after open(path, 'w') and write(content) with outcome o: a failed
\* open leaves the files alone, a failed write leaves the file truncated
Written(f, path, content, o) ==
    CASE o = "ok"          -> Put(f, path, content)
      [] o = "write_fails" -> Put(f, path, <<>>)
      [] OTHER             -> f

Path(d, name) == [dir |-> d, name |-> name]
LogRec(lv, m, name, p) == [level |-> lv, msg |-> m, doc |-> name, page |-> p]
NoDoc == <<>>

NoExc == [type |-> "none", msg |-> "none"]
Exc(t, m) == [type |-> t, msg |-> m]

\* the locals at the start of a document
FreshLocals(name) ==
    [name |-> name, original_text |-> <<>>, cleaned_text |-> <<>>,
     metadata |-> [filename |-> name], output_filename |-> <<>>,
     full_text |-> <<>>, handed |-> <<>>, page |-> 0, opened |-> FALSE,
     exc |-> NoExc, fs0 |-> fs, reads |-> <<>>]

\* the for loop takes the i-th element of the list
BeginDoc(i, first) ==
    /\ idx' = i
    /\ attempts' = [attempts EXCEPT ![i] = @ + 1]
    /\ loc' = FreshLocals(files[i])
    /\ pc' = first

\* the end of a loop body: the next element, or the statement after the loop
NextDoc(first, after) ==
    IF idx < Len(files)
    THEN BeginDoc(idx + 1, first)
    ELSE /\ pc' = after
         /\ UNCHANGED <<idx, attempts, loc>>

\* an exception leaves the current statement for the handler at pc value handler
Raise(e, handler) ==
    /\ loc' = [loc EXCEPT !.exc = e]
    /\ raised' = raised \cup {idx}
    /\ pc' = handler

RECURSIVE Dec(_)
\* str(n) of a natural number
Dec(n) == IF n < 10 THEN <<PageDigit(n)>> ELSE Dec(n \div 10) \o <<PageDigit(n % 10)>>

\* the keys of a metadata record, in insertion order, and the values as str() prints them
K_filename == <<"f","i","l","e","n","a","m","e">>
K_word_count == <<"w","o","r","d","_","c","o","u","n","t">>
K_char_count == <<"c","h","a","r","_","c","o","u","n","t">>
K_paragraph_count == <<"p","a","r","a","g","r","a","p","h","_","c","o","u","n","t">>
K_document_type == <<"d","o","c","u","m","e","n","t","_","t","y","p","e">>
K_number == <<"n","u","m","b","e","r">>
K_year == <<"y","e","a","r">>
W_UNKNOWN == <<"U","N","K","N","O","W","N">>
W_None == <<"N","o","n","e">>
S_processed_txt == <<"_","p","r","o","c","e","s","s","e","d",".","t","x","t">>
S_metadata_txt == <<"_","m","e","t","a","d","a","t","a",".","t","x","t">>
S_txt == <<".","t","x","t">>
S_pdf == <<".","p","d","f">>
S_ocr_txt == <<"_","o","c","r",".","t","x","t">>
TypeChars(t) == CASE t = "DECRETO" -> W_DECRETO [] t = "LEY" -> W_LEY [] OTHER -> W_UNKNOWN
OptChars(v) == IF v = None THEN W_None ELSE v
Line(key, value) == key \o <<":", " ">> \o value \o <<"\n">>
\* the lines save_processed_text writes to the sidecar: f"{key}: {value}\n" per field
MetadataLines(m) ==
    Line(K_filename, m.filename) \o Line(K_word_count, Dec(m.word_count))
    \o Line(K_char_count, Dec(m.char_count))
    \o Line(K_paragraph_count, Dec(m.paragraph_count))
    \o Line(K_document_type, TypeChars(m.document_type))
    \o Line(K_number, OptChars(m.number)) \o Line(K_year, OptChars(m.year))

-----------------------------------------------------------------------------
(* DecreeDataLoader.process_all_decrees *)

BatchFrame ==
    UNCHANGED <<family, text, nfrag, applied, out, out2, meta, driver, files, disk, run,
                successful_extractions>>

Logged(lv, m, name, p) == log' = Append(log, LogRec(lv, m, name, p))

\* all_metadata = [], the glob, and the early return on an empty directory
LoaderStart ==
    /\ driver = "loader" /\ pc = "start"
    /\ all_metadata' = <<>>
    /\ \/ /\ files = <<>>
          /\ Logged("WARNING", "No .txt files found in raw data directory", NoDoc, 0)
          /\ pc' = "returned"
          /\ UNCHANGED <<idx, attempts, loc>>
       \/ /\ files # <<>>
          /\ BeginDoc(1, "load")
          /\ UNCHANGED log
    /\ UNCHANGED <<fs, results, summary, raised>>
    /\ BatchFrame

\* the encodings load_decree_text opens the file with
UTF8Only == <<"utf-8">>
UTF8ThenLatin1 == <<"utf-8", "latin-1">>

\* load_decree_text without the latin-1 fallback
LoaderLoad_no_fallback ==
    /\ driver = "loader" /\ pc = "load"
    /\ LET d == disk[loc.name]
       IN  \/ /\ d.kind = "utf8"
              /\ Logged("INFO", "Successfully loaded", loc.name, 0)
              /\ loc' = [loc EXCEPT !.original_text = d.content, !.reads = UTF8Only]
              /\ pc' = "backup"
              /\ UNCHANGED raised
           \/ /\ d.kind = "missing"
              /\ Logged("ERROR", "File not found", loc.name, 0)
              /\ loc' = [loc EXCEPT !.reads = UTF8Only,
                                    !.exc = Exc("FileNotFoundError", "No such file or directory")]
              /\ raised' = raised \cup {idx}
              /\ pc' = "except"
           \/ /\ d.kind \in {"latin1", "undecodable"}
              /\ UNCHANGED log
              /\ loc' = [loc EXCEPT !.reads = UTF8Only,
                                    !.exc = Exc("UnicodeDecodeError", "invalid start byte")]
              /\ raised' = raised \cup {idx}
              /\ pc' = "except"
           \/ /\ d.kind = "unreadable"
              /\ UNCHANGED log
              /\ loc' = [loc EXCEPT !.reads = UTF8Only, !.exc = Exc("OSError", "open failed")]
              /\ raised' = raised \cup {idx}
              /\ pc' = "except"
    /\ UNCHANGED <<idx, attempts, fs, all_metadata, results, summary>>
    /\ BatchFrame

\* load_decree_text(txt_file.name)
LoaderLoad ==
    /\ driver = "loader" /\ pc = "load"
    /\ LET d == disk[loc.name]
       IN  \/ /\ d.kind = "utf8"
              /\ Logged("INFO", "Successfully loaded", loc.name, 0)
              /\ loc' = [loc EXCEPT !.original_text = d.content, !.reads = UTF8Only]
              /\ pc' = "backup"
              /\ UNCHANGED raised
           \/ /\ d.kind = "latin1"
              /\ Logged("WARNING", "Loaded with latin-1 encoding", loc.name, 0)
              /\ loc' = [loc EXCEPT !.original_text = d.content, !.reads = UTF8ThenLatin1]
              /\ pc' = "backup"
              /\ UNCHANGED raised
           \/ /\ d.kind = "missing"
              /\ Logged("ERROR", "File not found", loc.name, 0)
              /\ loc' = [loc EXCEPT !.reads = UTF8Only,
                                    !.exc = Exc("FileNotFoundError", "No such file or directory")]
              /\ raised' = raised \cup {idx}
              /\ pc' = "except"
           \/ /\ d.kind = "undecodable"
              /\ Logged("ERROR", "Could not decode", loc.name, 0)
              /\ loc' = [loc EXCEPT !.reads = UTF8ThenLatin1,
                                    !.exc = Exc("OSError", "fallback read failed")]
              /\ raised' = raised \cup {idx}
              /\ pc' = "except"
           \/ /\ d.kind = "unreadable"
              /\ UNCHANGED log
              /\ loc' = [loc EXCEPT !.reads = UTF8Only, !.exc = Exc("OSError", "open failed")]
              /\ raised' = raised \cup {idx}
              /\ pc' = "except"
    /\ UNCHANGED <<idx, attempts, fs, all_metadata, results, summary>>
    /\ BatchFrame

\* a backup step that stores the cleaned text instead of the loaded text
LoaderBackup_cleaned ==
    /\ driver = "loader" /\ pc = "backup"
    /\ \E o \in WriteOutcomes :
        /\ fs' = Written(fs, Path("backup", loc.name), clean_text(loc.original_text), o)
        /\ IF o = "ok"
           THEN pc' = "clean" /\ UNCHANGED <<loc, raised>>
           ELSE Raise(Exc("OSError", "backup write failed"), "except")
    /\ UNCHANGED <<idx, attempts, log, all_metadata, results, summary>>
    /\ BatchFrame

\* the backup of the original text
LoaderBackup ==
    /\ driver = "loader" /\ pc = "backup"
    /\ \E o \in WriteOutcomes :
        /\ fs' = Written(fs, Path("backup", loc.name), loc.original_text, o)
        /\ IF o = "ok"
           THEN pc' = "clean" /\ UNCHANGED <<loc, raised>>
           ELSE Raise(Exc("OSError", "backup write failed"), "except")
    /\ UNCHANGED <<idx, attempts, log, all_metadata, results, summary>>
    /\ BatchFrame

\* cleaned_text = self.clean_text(original_text)
LoaderClean ==
    /\ driver = "loader" /\ pc = "clean"
    /\ \/ /\ loc' = [loc EXCEPT !.cleaned_text = clean_text(loc.original_text)]
          /\ Logged("INFO", "Text cleaning completed", NoDoc, 0)
          /\ pc' = "metadata"
          /\ UNCHANGED raised
       \/ /\ Raise(Exc("MemoryError", "clean_text"), "except")
          /\ UNCHANGED log
    /\ UNCHANGED <<idx, attempts, fs, all_metadata, results, summary>>
    /\ BatchFrame

\* metadata = self.extract_metadata(cleaned_text, txt_file.name)
LoaderMetadata ==
    /\ driver = "loader" /\ pc = "metadata"
    /\ \/ /\ loc' = [loc EXCEPT !.metadata = extract_metadata(loc.cleaned_text, loc.name)]
          /\ pc' = "save_text"
          /\ UNCHANGED raised
       \/ Raise(Exc("MemoryError", "extract_metadata"), "except")
    /\ UNCHANGED <<idx, attempts, log, fs, all_metadata, results, summary>>
    /\ BatchFrame

\* save_processed_text, first half: the output name and the processed text
LoaderSaveText ==
    /\ driver = "loader" /\ pc = "save_text"
    /\ LET base_name == StrReplace(loc.metadata.filename, S_txt, <<>>)
           output_filename == base_name \o S_processed_txt
       IN  \E o \in WriteOutcomes :
            /\ fs' = Written(fs, Path("processed", output_filename), loc.cleaned_text, o)
            /\ IF o = "ok"
               THEN /\ loc' = [loc EXCEPT !.output_filename = output_filename]
                    /\ pc' = "save_meta"
                    /\ UNCHANGED raised
               ELSE Raise(Exc("OSError", "processed write failed"), "except")
    /\ UNCHANGED <<idx, attempts, log, all_metadata, results, summary>>
    /\ BatchFrame

\* save_processed_text, second half: the metadata sidecar and the two log lines
LoaderSaveMeta ==
    /\ driver = "loader" /\ pc = "save_meta"
    /\ LET metadata_file ==
               Path("processed", StrReplace(loc.output_filename, S_txt, S_metadata_txt))
       IN  \E o \in WriteOutcomes :
            /\ fs' = Written(fs, metadata_file, MetadataLines(loc.metadata), o)
            /\ IF o = "ok"
               THEN /\ log' = log \o <<LogRec("INFO", "Processed text saved", loc.output_filename, 0),
                                       LogRec("INFO", "Metadata saved", loc.output_filename, 0)>>
                    /\ pc' = "append"
                    /\ UNCHANGED <<loc, raised>>
               ELSE /\ Raise(Exc("OSError", "metadata write failed"), "except")
                    /\ UNCHANGED log
    /\ UNCHANGED <<idx, attempts, all_metadata, results, summary>>
    /\ BatchFrame

\* a loop body that writes the summary after each document
LoaderAppend_summary_each ==
    /\ driver = "loader" /\ pc = "append"
    /\ all_metadata' = Append(all_metadata, loc.metadata)
    /\ summary' = [exists |-> TRUE, rows |-> all_metadata']
    /\ NextDoc("load", "summary")
    /\ UNCHANGED <<log, fs, results, raised>>
    /\ BatchFrame

\* all_metadata.append(metadata), then the next document
LoaderAppend ==
    /\ driver = "loader" /\ pc = "append"
    /\ all_metadata' = Append(all_metadata, loc.metadata)
    /\ NextDoc("load", "summary")
    /\ UNCHANGED <<log, fs, results, summary, raised>>
    /\ BatchFrame

\* a handler that lets the exception leave the driver
LoaderExcept_reraise ==
    /\ driver = "loader" /\ pc = "except"
    /\ pc' = "raised"
    /\ UNCHANGED <<idx, attempts, log, loc, fs, all_metadata, results, summary, raised>>
    /\ BatchFrame

\* except Exception as e: logger.error(...); continue
LoaderExcept ==
    /\ driver = "loader" /\ pc = "except"
    /\ Logged("ERROR", "Error processing", loc.name, 0)
    /\ NextDoc("load", "summary")
    /\ UNCHANGED <<fs, all_metadata, results, summary, raised>>
    /\ BatchFrame

\* a summary step that writes nothing when no document succeeded
LoaderSummary_skip_empty ==
    /\ driver = "loader" /\ pc = "summary"
    /\ summary' = IF all_metadata = <<>> THEN summary
                  ELSE [exists |-> TRUE, rows |-> all_metadata]
    /\ Logged("INFO", "Processing summary saved", NoDoc, 0)
    /\ pc' = "returned"
    /\ UNCHANGED <<idx, attempts, fs, all_metadata, results, loc, raised>>
    /\ BatchFrame

\* save_processing_summary(all_metadata) and the return
LoaderSummary ==
    /\ driver = "loader" /\ pc = "summary"
    /\ \E o \in WriteOutcomes :
        /\ summary' = CASE o = "ok" -> [exists |-> TRUE, rows |-> all_metadata]
                        [] o = "write_fails" -> [exists |-> TRUE, rows |-> <<>>]
                        [] OTHER -> summary
        /\ IF o = "ok"
           THEN /\ Logged("INFO", "Processing summary saved", NoDoc, 0)
                /\ pc' = "returned"
                /\ UNCHANGED loc
           ELSE /\ loc' = [loc EXCEPT !.exc = Exc("OSError", "summary write failed")]
                /\ pc' = "raised"
                /\ UNCHANGED log
    /\ UNCHANGED <<idx, attempts, fs, all_metadata, results, raised>>
    /\ BatchFrame

-----------------------------------------------------------------------------
(* PDFExtractor.extract_all_pdfs and extract_text_from_pdf (pdfplumber) *)

Pages == disk[loc.name].pages
\* the drivers that call extract_text_from_pdf
PdfplumberCallers == {"pdf", "decrees"}

\* the glob, the early return, and the "Found ..." line
PdfStart ==
    /\ driver = "pdf" /\ pc = "start"
    /\ \/ /\ files = <<>>
          /\ Logged("WARNING", "No PDF files found in the specified folder", NoDoc, 0)
          /\ pc' = "returned"
          /\ UNCHANGED <<idx, attempts, loc>>
       \/ /\ files # <<>>
          /\ Logged("INFO", "Found PDF files to process", NoDoc, 0)
          /\ BeginDoc(1, "doc")
    /\ UNCHANGED <<fs, all_metadata, results, summary, raised>>
    /\ BatchFrame

\* logger.info(f"Processing: ..."), then the call
PdfDoc ==
    /\ driver = "pdf" /\ pc = "doc"
    /\ Logged("INFO", "Processing", loc.name, 0)
    /\ pc' = "exists"
    /\ UNCHANGED <<idx, attempts, fs, all_metadata, results, loc, summary, raised>>
    /\ BatchFrame

\* extract_text_from_pdf without the existence check
PdfExists_unchecked ==
    /\ driver \in PdfplumberCallers /\ pc = "exists"
    /\ pc' = "open"
    /\ UNCHANGED <<idx, attempts, log, loc, fs, all_metadata, results, summary, raised>>
    /\ BatchFrame

\* if not pdf_path.exists(): log and raise, outside the try block
PdfExists ==
    /\ driver \in PdfplumberCallers /\ pc = "exists"
    /\ \/ /\ ~disk[loc.name].exists
          /\ Logged("ERROR", "PDF file not found", loc.name, 0)
          /\ Raise(Exc("FileNotFoundError", "PDF file not found"), "except")
       \/ /\ disk[loc.name].exists
          /\ pc' = "open"
          /\ UNCHANGED <<log, loc, raised>>
    /\ UNCHANGED <<idx, attempts, fs, all_metadata, results, summary>>
    /\ BatchFrame

\* with pdfplumber.open(pdf_path) as pdf: full_text = ""; total_pages = ...
PdfOpen ==
    /\ driver \in PdfplumberCallers /\ pc = "open"
    /\ \/ /\ disk[loc.name].open = "ok"
          /\ loc' = [loc EXCEPT !.full_text = <<>>, !.page = 1, !.opened = TRUE]
          /\ Logged("INFO", "Extracting text from pages using pdfplumber", loc.name, 0)
          /\ pc' = "page"
          /\ UNCHANGED raised
       \/ /\ disk[loc.name].open # "ok"
          /\ Raise(Exc("Exception", "pdfplumber.open failed"), "inner_except")
          /\ UNCHANGED log
    /\ UNCHANGED <<idx, attempts, fs, all_metadata, results, summary>>
    /\ BatchFrame

\* one iteration of the page loop: extract_text(), if page_text: ..., except ...: continue
PdfPage ==
    /\ driver \in PdfplumberCallers /\ pc = "page" /\ loc.page <= Len(Pages)
    /\ LET p == loc.page
           page_text == PageText(Pages[p], p)
       IN  \/ /\ Pages[p] = "raises"
              /\ Logged("WARNING", "Error extracting page", loc.name, p)
              /\ loc' = [loc EXCEPT !.page = p + 1]
           \/ /\ Pages[p] # "raises" /\ page_text # <<>>
              /\ Logged("INFO", "Page: extracted words", loc.name, p)
              /\ loc' = [loc EXCEPT !.full_text = @ \o page_text \o NL2, !.page = p + 1]
           \/ /\ Pages[p] # "raises" /\ page_text = <<>>
              /\ Logged("WARNING", "Page: no text extracted", loc.name, p)
              /\ loc' = [loc EXCEPT !.page = p + 1]
    /\ UNCHANGED <<idx, pc, attempts, fs, all_metadata, results, summary, raised>>
    /\ BatchFrame

\* full_text = self._clean_extracted_text(full_text)
PdfClean ==
    /\ driver \in PdfplumberCallers /\ pc = "page" /\ loc.page > Len(Pages)
    /\ loc' = [loc EXCEPT !.handed = loc.full_text,
                          !.full_text = _clean_extracted_text(loc.full_text)]
    /\ IF Strip(loc.full_text) = <<>>
       THEN Logged("WARNING", "Text is empty after extraction!", NoDoc, 0)
       ELSE Logged("INFO", "Text cleaning completed", NoDoc, 0)
    /\ pc' = "write"
    /\ UNCHANGED <<idx, attempts, fs, all_metadata, results, summary, raised>>
    /\ BatchFrame

\* output_filename = pdf_filename.replace('.pdf', '.txt'); write; two log lines; return
PdfWrite ==
    /\ driver \in PdfplumberCallers /\ pc = "write"
    /\ LET output_filename == IF loc.output_filename = <<>>
                              THEN StrReplace(loc.name, S_pdf, S_txt)
                              ELSE loc.output_filename
       IN  \E o \in WriteOutcomes :
            /\ fs' = Written(fs, Path("raw", output_filename), loc.full_text, o)
            /\ IF o = "ok"
               THEN /\ loc' = [loc EXCEPT !.output_filename = output_filename]
                    /\ log' = log \o <<LogRec("INFO", "Text saved to", output_filename, 0),
                                       LogRec("INFO", "Total extracted", loc.name, 0)>>
                    /\ pc' = "ok_return"
                    /\ UNCHANGED raised
               ELSE /\ Raise(Exc("OSError", "output write failed"), "inner_except")
                    /\ UNCHANGED log
    /\ UNCHANGED <<idx, attempts, all_metadata, results, summary>>
    /\ BatchFrame

\* except Exception as e: logger.error(...); raise
PdfInnerExcept ==
    /\ driver \in PdfplumberCallers /\ pc = "inner_except"
    /\ Logged("ERROR", "Error processing PDF", loc.name, 0)
    /\ pc' = "except"
    /\ UNCHANGED <<idx, attempts, fs, all_metadata, results, loc, summary, raised>>
    /\ BatchFrame

\* logger.info(f"Successfully processed: ..."), then the next file
PdfSuccess ==
    /\ driver = "pdf" /\ pc = "ok_return"
    /\ Logged("INFO", "Successfully processed", loc.name, 0)
    /\ NextDoc("doc", "done")
    /\ UNCHANGED <<fs, all_metadata, results, summary, raised>>
    /\ BatchFrame

\* except Exception as e: logger.error(f"Failed to process ..."); continue
PdfExcept ==
    /\ driver = "pdf" /\ pc = "except"
    /\ Logged("ERROR", "Failed to process", loc.name, 0)
    /\ NextDoc("doc", "done")
    /\ UNCHANGED <<fs, all_metadata, results, summary, raised>>
    /\ BatchFrame

\* logger.info("PDF extraction completed!")
PdfDone ==
    /\ driver = "pdf" /\ pc = "done"
    /\ Logged("INFO", "PDF extraction completed!", NoDoc, 0)
    /\ pc' = "returned"
    /\ UNCHANGED <<idx, attempts, fs, all_metadata, results, loc, summary, raised>>
    /\ BatchFrame

-----------------------------------------------------------------------------
(* OCRExtractor.ocr_specific_files and ocr_pdf *)

\* results = {} and the first element of filenames
OcrStart ==
    /\ driver = "ocr" /\ pc = "start"
    /\ results' = <<>>
    /\ \/ /\ files = <<>>
          /\ pc' = "returned"
          /\ UNCHANGED <<idx, attempts, loc>>
       \/ /\ files # <<>>
          /\ BeginDoc(1, "doc")
    /\ UNCHANGED <<log, fs, all_metadata, summary, raised>>
    /\ BatchFrame

\* print(f"Starting OCR for: ..."), then the call
OcrDoc ==
    /\ driver = "ocr" /\ pc = "doc"
    /\ Logged("PRINT", "Starting OCR for", loc.name, 0)
    /\ pc' = "exists"
    /\ UNCHANGED <<idx, attempts, fs, all_metadata, results, loc, summary, raised>>
    /\ BatchFrame

\* if not pdf_path.exists(): log and raise, outside the try block
OcrExists ==
    /\ driver = "ocr" /\ pc = "exists"
    /\ \/ /\ ~disk[loc.name].exists
          /\ Logged("ERROR", "PDF file not found", loc.name, 0)
          /\ Raise(Exc("FileNotFoundError", "PDF file not found"), "except")
       \/ /\ disk[loc.name].exists
          /\ pc' = "open"
          /\ UNCHANGED <<log, loc, raised>>
    /\ UNCHANGED <<idx, attempts, fs, all_metadata, results, summary>>
    /\ BatchFrame

OcrConvertLines ==
    <<LogRec("INFO", "Converting to images (DPI=300)", loc.name, 0),
      LogRec("INFO", "Using poppler path", NoDoc, 0)>>

\* the poppler check, convert_from_path, full_text = "", "Starting OCR on ..."
OcrConvert ==
    /\ driver = "ocr" /\ pc = "open"
    /\ \/ /\ disk[loc.name].open = "no_poppler"
          /\ log' = log \o OcrConvertLines
                        \o <<LogRec("ERROR", "Poppler path does not exist", NoDoc, 0)>>
          /\ Raise(Exc("FileNotFoundError", "Poppler path not found"), "inner_except")
       \/ /\ disk[loc.name].open = "fails"
          /\ log' = log \o OcrConvertLines
          /\ Raise(Exc("Exception", "convert_from_path failed"), "inner_except")
       \/ /\ disk[loc.name].open = "ok"
          /\ log' = log \o OcrConvertLines
                        \o <<LogRec("INFO", "Starting OCR on pages", loc.name, 0)>>
          /\ loc' = [loc EXCEPT !.full_text = <<>>, !.page = 1, !.opened = TRUE]
          /\ pc' = "page"
          /\ UNCHANGED raised
    /\ UNCHANGED <<idx, attempts, fs, all_metadata, results, summary>>
    /\ BatchFrame

\* the page loop with the test "if page_text:" in place of "if page_text.strip():"
OcrPage_truthy ==
    /\ driver = "ocr" /\ pc = "page" /\ loc.page <= Len(Pages)
    /\ LET p == loc.page
           page_text == PageText(Pages[p], p)
           start == LogRec("INFO", "OCR processing page", loc.name, p)
       IN  \/ /\ Pages[p] = "raises"
              /\ log' = log \o <<start, LogRec("WARNING", "Error on page", loc.name, p)>>
              /\ loc' = [loc EXCEPT !.page = p + 1]
           \/ /\ Pages[p] # "raises" /\ page_text # <<>>
              /\ log' = log \o <<start, LogRec("INFO", "Page: words extracted", loc.name, p)>>
              /\ loc' = [loc EXCEPT !.full_text = @ \o page_text \o NL2, !.page = p + 1]
           \/ /\ Pages[p] # "raises" /\ page_text = <<>>
              /\ log' = log \o <<start, LogRec("WARNING", "Page: no text found", loc.name, p)>>
              /\ loc' = [loc EXCEPT !.page = p + 1]
    /\ UNCHANGED <<idx, pc, attempts, fs, all_metadata, results, summary, raised>>
    /\ BatchFrame

\* one iteration of the page loop: image_to_string, if page_text.strip(): ..., except
OcrPage ==
    /\ driver = "ocr" /\ pc = "page" /\ loc.page <= Len(Pages)
    /\ LET p == loc.page
           page_text == PageText(Pages[p], p)
           start == LogRec("INFO", "OCR processing page", loc.name, p)
       IN  \/ /\ Pages[p] = "raises"
              /\ log' = log \o <<start, LogRec("WARNING", "Error on page", loc.name, p)>>
              /\ loc' = [loc EXCEPT !.page = p + 1]
           \/ /\ Pages[p] # "raises" /\ Strip(page_text) # <<>>
              /\ log' = log \o <<start, LogRec("INFO", "Page: words extracted", loc.name, p)>>
              /\ loc' = [loc EXCEPT !.full_text = @ \o page_text \o NL2, !.page = p + 1]
           \/ /\ Pages[p] # "raises" /\ Strip(page_text) = <<>>
              /\ log' = log \o <<start, LogRec("WARNING", "Page: no text found", loc.name, p)>>
              /\ loc' = [loc EXCEPT !.page = p + 1]
    /\ UNCHANGED <<idx, pc, attempts, fs, all_metadata, results, summary, raised>>
    /\ BatchFrame

\* cleaned_text = self._clean_ocr_text(full_text)
OcrClean ==
    /\ driver = "ocr" /\ pc = "page" /\ loc.page > Len(Pages)
    /\ loc' = [loc EXCEPT !.handed = loc.full_text,
                          !.cleaned_text = _clean_ocr_text(loc.full_text)]
    /\ IF Strip(loc.full_text) = <<>>
       THEN UNCHANGED log
       ELSE log' = log \o <<LogRec("INFO", "Cleaning OCR text...", NoDoc, 0),
                            LogRec("INFO", "OCR text cleaning completed", NoDoc, 0)>>
    /\ pc' = "write"
    /\ UNCHANGED <<idx, attempts, fs, all_metadata, results, summary, raised>>
    /\ BatchFrame

\* output_filename = pdf_filename.replace('.pdf', '_ocr.txt'); write; log; return
OcrWrite ==
    /\ driver = "ocr" /\ pc = "write"
    /\ LET output_filename == StrReplace(loc.name, S_pdf, S_ocr_txt)
       IN  \E o \in WriteOutcomes :
            /\ fs' = Written(fs, Path("raw", output_filename), loc.cleaned_text, o)
            /\ IF o = "ok"
               THEN /\ loc' = [loc EXCEPT !.output_filename = output_filename]
                    /\ Logged("INFO", "OCR completed! words saved to", output_filename, 0)
                    /\ pc' = "ok_return"
                    /\ UNCHANGED raised
               ELSE /\ Raise(Exc("OSError", "output write failed"), "inner_except")
                    /\ UNCHANGED log
    /\ UNCHANGED <<idx, attempts, all_metadata, results, summary>>
    /\ BatchFrame

\* except Exception as e: logger.error(f"OCR failed for ..."); raise
OcrInnerExcept ==
    /\ driver = "ocr" /\ pc = "inner_except"
    /\ Logged("ERROR", "OCR failed for", loc.name, 0)
    /\ pc' = "except"
    /\ UNCHANGED <<idx, attempts, fs, all_metadata, results, loc, summary, raised>>
    /\ BatchFrame

\* results[filename] = {'status': 'success', 'words': ...}, the two printed lines
OcrSuccess ==
    /\ driver = "ocr" /\ pc = "ok_return"
    /\ results' = Put(results, loc.name,
                      [status |-> "success", words |-> SplitCount(loc.cleaned_text),
                       error |-> "none"])
    /\ log' = log \o <<LogRec("PRINT", "Success: words extracted", loc.name, 0),
                       LogRec("PRINT", "Preview", loc.name, 0)>>
    /\ NextDoc("doc", "returned")
    /\ UNCHANGED <<fs, all_metadata, summary, raised>>
    /\ BatchFrame

\* except Exception as e: results[filename] = {'status': 'failed', ...}; print
OcrExcept ==
    /\ driver = "ocr" /\ pc = "except"
    /\ results' = Put(results, loc.name,
                      [status |-> "failed", words |-> 0, error |-> loc.exc.msg])
    /\ Logged("PRINT", "Failed", loc.name, 0)
    /\ NextDoc("doc", "returned")
    /\ UNCHANGED <<fs, all_metadata, summary, raised>>
    /\ BatchFrame

-----------------------------------------------------------------------------
(* Runs of the drivers *)

\* lists of at most n distinct names of S
DistinctSeqs(S, n) ==
    {f \in SeqsUpTo(S, n) : \A i, j \in DOMAIN f : i # j => f[i] # f[j]}

InitLocals ==
    [name |-> <<>>, original_text |-> <<>>, cleaned_text |-> <<>>,
     metadata |-> [filename |-> <<>>], output_filename |-> <<>>,
     full_text |-> <<>>, handed |-> <<>>, page |-> 0, opened |-> FALSE,
     exc |-> NoExc, fs0 |-> <<>>, reads |-> <<>>]

\* the documents a driver can find under the names of its list
DocsOf(d, name, pdfs) ==
    IF d = "loader" THEN TxtDocs(name)
    ELSE IF d = "pdf" THEN {x \in pdfs : x.open # "no_poppler"}
    ELSE pdfs

InitRun(drivers, n, pdfs) ==
    /\ family = "none" /\ PureIdle
    /\ driver \in drivers
    /\ files \in DistinctSeqs(IF driver = "loader" THEN TxtNames ELSE PdfNames, n)
    /\ disk \in {f \in [Range(files) -> UNION {DocsOf(driver, x, pdfs) : x \in Range(files)}] :
                    \A x \in Range(files) : f[x] \in DocsOf(driver, x, pdfs)}
    /\ idx = 0 /\ pc = "start"
    /\ log = <<>> /\ fs = <<>>
    /\ all_metadata = <<>> /\ results = <<>>
    /\ loc = InitLocals
    /\ summary = [exists |-> FALSE, rows |-> <<>>]
    /\ attempts = [i \in 1..Len(files) |-> 0]
    /\ raised = {} /\ run = 0 /\ successful_extractions = 0

NextLoader ==
    \/ LoaderStart \/ LoaderLoad \/ LoaderBackup \/ LoaderClean \/ LoaderMetadata
    \/ LoaderSaveText \/ LoaderSaveMeta \/ LoaderAppend \/ LoaderExcept \/ LoaderSummary

NextExtract ==
    \/ PdfStart \/ PdfDoc \/ PdfExists \/ PdfOpen \/ PdfPage \/ PdfClean \/ PdfWrite
    \/ PdfInnerExcept \/ PdfSuccess \/ PdfExcept \/ PdfDone
    \/ OcrStart \/ OcrDoc \/ OcrExists \/ OcrConvert \/ OcrPage \/ OcrClean \/ OcrWrite
    \/ OcrInnerExcept \/ OcrSuccess \/ OcrExcept

NextBatch == NextLoader \/ NextExtract

\* a batch of up to MaxDocs documents under each of the three drivers
InitBatch == InitRun({"loader", "pdf", "ocr"}, MaxDocs, BatchPdfDocs)
SpecBatch == InitBatch /\ [][NextBatch]_vars

\* one extraction call on a document of up to MaxPages pages
InitExtract == InitRun({"pdf", "ocr"}, 1, SinglePdfDocs)
SpecExtract == InitExtract /\ [][NextExtract]_vars

-----------------------------------------------------------------------------
(* Properties of the drivers *)

LogCount(lv, m) == Cardinality({i \in DOMAIN log : log[i].level = lv /\ log[i].msg = m})
LoggedFor(lv, m, name, p) == \E i \in DOMAIN log : log[i] = LogRec(lv, m, name, p)
EndsWith(s, suf) ==
    Len(s) >= Len(suf) /\ SubSeq(s, Len(s) - Len(suf) + 1, Len(s)) = suf
ProcessedFiles ==
    {f \in DOMAIN fs : f.dir = "processed" /\ EndsWith(f.name, S_processed_txt)}

\* C2: when a run of process_all_decrees over N documents, M of which failed,
\* returns, M "Error processing" records have been logged, N-M files named
\* ..._processed.txt exist, processing_summary.csv has N-M data rows and the
\* returned list has N-M records.
C2_BatchCounts ==
    (driver = "loader" /\ pc = "returned") =>
        LET N == Len(files)
            M == Cardinality(raised)
        IN  /\ LogCount("ERROR", "Error processing") = M
            /\ Cardinality(ProcessedFiles) = N - M
            /\ Len(summary.rows) = N - M
            /\ Len(all_metadata) = N - M

AfterLoop == {"summary", "done", "returned", "raised"}
\* the loop body of the i-th element has been left
Finished(i) == i < idx \/ (i = idx /\ pc \in AfterLoop)
\* the driver's own record of the failure of the document called name
FailureRecorded(name) ==
    CASE driver = "loader" -> LoggedFor("ERROR", "Error processing", name, 0)
      [] driver = "pdf"    -> LoggedFor("ERROR", "Failed to process", name, 0)
      [] OTHER             -> /\ name \in DOMAIN results
                              /\ results[name].status = "failed"
                              /\ LoggedFor("PRINT", "Failed", name, 0)

\* C3: in each of the three drivers, a document in whose processing an
\* exception was raised has its failure logged or recorded under its name once
\* its loop body is left, the exception does not leave the driver, and every
\* element of the list is started at most once and, when the loop is over,
\* exactly once.
C3_BatchIsolation ==
    driver \in {"loader", "pdf", "ocr"} =>
        /\ \A i \in raised : Finished(i) => FailureRecorded(files[i])
        /\ \A i \in DOMAIN files : attempts[i] = (IF i <= idx THEN 1 ELSE 0)
        /\ (pc \in AfterLoop /\ files # <<>>) => idx = Len(files)
        /\ pc = "raised" => /\ driver = "loader"
                            /\ loc.exc = Exc("OSError", "summary write failed")

C3_Witness ==
    /\ driver = "loader" /\ pc = "returned"
    /\ Len(files) = 2 /\ raised = {1}
    /\ attempts = <<1, 1>>
    /\ Len(all_metadata) = 1
    /\ LoggedFor("ERROR", "Error processing", files[1], 0)

\* whether the page loop adds the text of page p to full_text
Kept(kind, p, stripped) ==
    /\ kind # "raises"
    /\ (IF stripped THEN Strip(PageText(kind, p)) ELSE PageText(kind, p)) # <<>>

RECURSIVE PagesText(_, _, _)
\* the texts of the kept pages from page p on, each followed by "\n\n"
PagesText(kinds, p, stripped) ==
    IF p > Len(kinds) THEN <<>>
    ELSE (IF Kept(kinds[p], p, stripped) THEN PageText(kinds[p], p) \o NL2 ELSE <<>>)
         \o PagesText(kinds, p + 1, stripped)

PageWarning == IF driver = "pdf" THEN "Error extracting page" ELSE "Error on page"
InPageLoop == driver \in {"pdf", "ocr"} /\ pc = "page"
HandedOver == driver \in {"pdf", "ocr"} /\ pc = "write"
SomePageRaises == \E p \in DOMAIN Pages : Pages[p] = "raises"

\* a page that raised has its warning, and the document has not failed
PageFailuresTolerated ==
    (InPageLoop \/ HandedOver) =>
        \A p \in DOMAIN Pages :
            (Pages[p] = "raises" /\ p < loc.page) =>
                /\ LoggedFor("WARNING", PageWarning, loc.name, p)
                /\ idx \notin raised

\* C4 as stated: when a page of the document raises, a warning is logged for
\* it, the document does not fail, and the text handed to the normalizer is the
\* concatenation, in page order, of the texts of the pages that succeeded with
\* a non-empty text, each followed by "\n\n".
C4_PageFailureNonEmpty ==
    /\ PageFailuresTolerated
    /\ (HandedOver /\ SomePageRaises) => loc.handed = PagesText(Pages, 1, FALSE)

\* C4: when a page of the document raises, a warning is logged for it, the
\* document does not fail, and the text handed to the normalizer is the
\* concatenation, in page order, of the texts of the pages that succeeded and
\* that the page loop keeps, each followed by "\n\n": extract_text_from_pdf
\* keeps a non-empty text, ocr_pdf a text that is not whitespace only.
C4_PageFailure ==
    /\ PageFailuresTolerated
    /\ (HandedOver /\ SomePageRaises) => loc.handed = PagesText(Pages, 1, driver = "ocr")

C4_Witness ==
    /\ HandedOver /\ driver = "ocr"
    /\ Pages = <<"text", "raises", "text">>
    /\ loc.handed = <<"p", "1", "\n", "\n", "p", "3", "\n", "\n">>
    /\ LoggedFor("WARNING", "Error on page", loc.name, 2)
    /\ idx \notin raised

\* C5: when the PDF does not exist, ocr_pdf and extract_text_from_pdf raise
\* FileNotFoundError before the PDF is opened or rasterized, and the files
\* written are those written before the call.
C5_MissingPdf ==
    (driver \in {"pdf", "ocr"} /\ idx >= 1 /\ pc \notin {"doc", "exists"}
        /\ ~disk[loc.name].exists) =>
        /\ loc.exc = Exc("FileNotFoundError", "PDF file not found")
        /\ idx \in raised
        /\ ~loc.opened
        /\ fs = loc.fs0
        /\ LoggedFor("ERROR", "PDF file not found", loc.name, 0)

C5_Witness ==
    /\ driver = "pdf" /\ pc = "returned" /\ idx = 2
    /\ ~disk[loc.name].exists
    /\ loc.exc.type = "FileNotFoundError"
    /\ fs # <<>> /\ fs = loc.fs0

\* the steps of process_all_decrees in their order: from each position of the
\* loop body, the positions that may follow it
LoaderSteps ==
    {<<"start", "load">>, <<"start", "returned">>,
     <<"load", "backup">>, <<"backup", "clean">>, <<"clean", "metadata">>,
     <<"metadata", "save_text">>, <<"save_text", "save_meta">>, <<"save_meta", "append">>,
     <<"append", "load">>, <<"append", "summary">>,
     <<"except", "load">>, <<"except", "summary">>,
     <<"summary", "returned">>, <<"summary", "raised">>}
    \cup {<<p, "except">> : p \in {"load", "backup", "clean", "metadata", "save_text",
                                    "save_meta"}}

\* the names under which the document called name is written
BackupPath(name) == Path("backup", name)
ProcessedPath(name) == Path("processed", StrReplace(name, S_txt, <<>>) \o S_processed_txt)
SidecarPath(name) ==
    Path("processed", StrReplace(StrReplace(name, S_txt, <<>>) \o S_processed_txt,
                                 S_txt, S_metadata_txt))
\* the document a step works on
StepWrites ==
    CASE pc = "backup"    -> {BackupPath(loc.name)}
      [] pc = "save_text" -> {ProcessedPath(loc.name)}
      [] pc = "save_meta" -> {SidecarPath(loc.name)}
      [] OTHER            -> {}
ChangedFiles ==
    {f \in DOMAIN fs' : f \notin DOMAIN fs \/ fs'[f] # fs[f]}

\* C14: process_all_decrees is strictly sequential: the steps of a document come
\* in the order load, backup write, clean, metadata extraction, processed-text
\* write, sidecar write; the next document starts only after the last step,
\* or the failure, of the current one; each step writes only the file of its
\* own document; the summary is written only after the last document.
C14_SequentialSteps ==
    [][driver = "loader" =>
        /\ pc' # pc => <<pc, pc'>> \in LoaderSteps
        /\ idx' # idx => (idx' = idx + 1 /\ pc \in {"start", "append", "except"}
                           /\ pc' = "load")
        /\ loc'.name # loc.name => idx' # idx
        /\ ChangedFiles \subseteq StepWrites
        /\ all_metadata' # all_metadata =>
               (pc = "append" /\ all_metadata' = Append(all_metadata, loc.metadata))
        /\ summary' # summary => (pc = "summary" /\ idx = Len(files))
      ]_vars

C14_Witness ==
    /\ driver = "loader" /\ pc = "returned"
    /\ Len(files) = 2 /\ raised = {}
    /\ Len(summary.rows) = 2
    /\ summary.rows[1].filename = files[1] /\ summary.rows[2].filename = files[2]
    /\ {BackupPath(files[1]), BackupPath(files[2])} \subseteq DOMAIN fs

\* C15 as stated: every run of process_all_decrees that returns has written its
\* list of metadata records to processing_summary.csv, for every number of
\* documents (none included) and every number of failures.
C15_SummaryAlwaysWritten ==
    (driver = "loader" /\ pc = "returned") =>
        summary = [exists |-> TRUE, rows |-> all_metadata]

\* C15: every run of process_all_decrees over one or more documents that
\* returns has written its list of metadata records to processing_summary.csv,
\* also when every document failed; the run over an empty source directory
\* logs a warning and returns the empty list without writing the summary.
C15_SummaryWritten ==
    (driver = "loader" /\ pc = "returned") =>
        IF files = <<>>
        THEN /\ ~summary.exists /\ all_metadata = <<>>
             /\ LoggedFor("WARNING", "No .txt files found in raw data directory", NoDoc, 0)
        ELSE /\ summary = [exists |-> TRUE, rows |-> all_metadata]
             /\ LoggedFor("INFO", "Processing summary saved", NoDoc, 0)

C15_Witness ==
    /\ driver = "loader" /\ pc = "returned"
    /\ Len(files) = 2 /\ raised = {1, 2}
    /\ all_metadata = <<>>
    /\ summary = [exists |-> TRUE, rows |-> <<>>]

\* the current document has been through load_decree_text (and the locals are
\* still those of the loop: the summary write has not raised)
LoadedHere == driver = "loader" /\ idx >= 1 /\ pc \notin {"start", "load", "raised"}
LoadErrors ==
    {Exc("FileNotFoundError", "No such file or directory"),
     Exc("OSError", "fallback read failed"), Exc("OSError", "open failed")}
\* the current document is skipped: it fails and contributes no record
Skipped ==
    /\ idx \in raised
    /\ \A k \in DOMAIN all_metadata : all_metadata[k].filename # loc.name
    /\ Finished(idx) => LoggedFor("ERROR", "Error processing", loc.name, 0)

\* C16: load_decree_text reads the file as UTF-8 once; only when that fails to
\* decode it reads it once more as latin-1 and, if that succeeds, returns the
\* text with a warning and the document goes on; when the fallback fails too
\* an error is logged, the exception is raised and the document is skipped; a
\* missing file raises FileNotFoundError with no fallback; a file is never
\* read more than these two times.
C16_LoadFallback ==
    LoadedHere =>
        LET kind == disk[loc.name].kind
        IN  /\ attempts[idx] = 1
            /\ kind = "utf8" =>
                   /\ loc.reads = UTF8Only
                   /\ loc.original_text = disk[loc.name].content
                   /\ loc.exc \notin LoadErrors
            /\ kind = "latin1" =>
                   /\ loc.reads = UTF8ThenLatin1
                   /\ loc.original_text = disk[loc.name].content
                   /\ LoggedFor("WARNING", "Loaded with latin-1 encoding", loc.name, 0)
                   /\ loc.exc \notin LoadErrors
            /\ kind = "undecodable" =>
                   /\ loc.reads = UTF8ThenLatin1
                   /\ LoggedFor("ERROR", "Could not decode", loc.name, 0)
                   /\ loc.exc = Exc("OSError", "fallback read failed")
                   /\ Skipped
            /\ kind = "missing" =>
                   /\ loc.reads = UTF8Only
                   /\ LoggedFor("ERROR", "File not found", loc.name, 0)
                   /\ loc.exc = Exc("FileNotFoundError", "No such file or directory")
                   /\ Skipped
            /\ kind = "unreadable" => (loc.reads = UTF8Only /\ Skipped)

C16_Witness ==
    /\ driver = "loader" /\ pc = "returned"
    /\ Len(files) = 2
    /\ disk[files[1]].kind = "undecodable" /\ disk[files[2]].kind = "latin1"
    /\ raised = {1}
    /\ Len(all_metadata) = 1 /\ all_metadata[1].filename = files[2]
    /\ loc.reads = UTF8ThenLatin1

\* the positions of the loop body after the backup has been written
PastBackup == {"clean", "metadata", "save_text", "save_meta", "append"}
\* the backup directory holds the text that was loaded from the document name
BackedUp(name) ==
    /\ BackupPath(name) \in DOMAIN fs
    /\ fs[BackupPath(name)] = disk[name].content

\* C20: in process_all_decrees, once the load of a document has succeeded its
\* loaded text is in the backup directory before clean_text runs and for the
\* rest of its processing; every document collected for the summary, and every
\* row of the written summary, has a backup equal to its loaded text; and no
\* write goes to the raw directory.
C20_BackupBeforeClean ==
    driver = "loader" =>
        /\ pc \in PastBackup =>
               /\ loc.original_text = disk[loc.name].content
               /\ BackedUp(loc.name)
        /\ \A i \in DOMAIN all_metadata : BackedUp(all_metadata[i].filename)
        /\ \A i \in DOMAIN summary.rows : BackedUp(summary.rows[i].filename)
        /\ \A p \in DOMAIN fs : p.dir \in {"backup", "processed"}

C20_Witness ==
    /\ driver = "loader" /\ pc = "returned"
    /\ Len(files) = 2
    /\ disk[files[1]].kind = "latin1" /\ disk[files[2]].kind = "utf8"
    /\ Len(summary.rows) = 2
    /\ \A i \in 1..2 : BackedUp(files[i])
    /\ fs[BackupPath(files[1])] # fs[ProcessedPath(files[1])]

\* the path of the PDF that a call of the extractor reads
SourcePath(name) == Path("raw", name)

\* C21: with output_filename omitted and both folders data/raw, no call of
\* ocr_pdf or extract_text_from_pdf writes to the path of the PDF it read.
C21_SourceNotOverwritten ==
    driver \in {"pdf", "ocr"} =>
        \A i \in 1..Len(files) : SourcePath(files[i]) \notin DOMAIN fs

-----------------------------------------------------------------------------
(* A direct call of DecreeDataLoader.save_processed_text *)

\* the output_filename argument: omitted, or a name supplied by the caller
CallerNames == {<<>>, <<"o",".","t","x","t">>, <<"o">>, <<"o",".","m","d">>}

\* if not output_filename: ...; the write of the processed text
SaveText ==
    /\ driver = "save" /\ pc = "save_text"
    /\ LET base_name == StrReplace(loc.metadata.filename, S_txt, <<>>)
           output_filename == IF loc.output_filename = <<>>
                              THEN base_name \o S_processed_txt
                              ELSE loc.output_filename
       IN  \E o \in WriteOutcomes :
            /\ fs' = Written(fs, Path("processed", output_filename), loc.cleaned_text, o)
            /\ IF o = "ok"
               THEN /\ loc' = [loc EXCEPT !.output_filename = output_filename]
                    /\ pc' = "save_meta"
               ELSE /\ loc' = [loc EXCEPT !.output_filename = output_filename,
                                          !.exc = Exc("OSError", "processed write failed")]
                    /\ pc' = "raised"
    /\ UNCHANGED <<idx, attempts, log, all_metadata, results, summary, raised>>
    /\ BatchFrame

\* the write of the metadata sidecar and the two log lines
SaveMeta ==
    /\ driver = "save" /\ pc = "save_meta"
    /\ LET metadata_file ==
               Path("processed", StrReplace(loc.output_filename, S_txt, S_metadata_txt))
       IN  \E o \in WriteOutcomes :
            /\ fs' = Written(fs, metadata_file, MetadataLines(loc.metadata), o)
            /\ IF o = "ok"
               THEN /\ log' = log \o <<LogRec("INFO", "Processed text saved", loc.output_filename, 0),
                                       LogRec("INFO", "Metadata saved", loc.output_filename, 0)>>
                    /\ pc' = "returned"
                    /\ UNCHANGED loc
               ELSE /\ loc' = [loc EXCEPT !.exc = Exc("OSError", "metadata write failed")]
                    /\ pc' = "raised"
                    /\ UNCHANGED log
    /\ UNCHANGED <<idx, attempts, all_metadata, results, summary, raised>>
    /\ BatchFrame

\* save_processed_text(text, metadata, output_filename) on an empty processed
\* directory, with the metadata of the text under a document name
InitSave ==
    /\ family = "none" /\ PureIdle
    /\ driver = "save" /\ files = <<>> /\ disk = <<>> /\ idx = 0 /\ pc = "save_text"
    /\ log = <<>> /\ fs = <<>> /\ all_metadata = <<>> /\ results = <<>>
    /\ attempts = <<>> /\ raised = {} /\ run = 0 /\ successful_extractions = 0
    /\ summary = [exists |-> FALSE, rows |-> <<>>]
    /\ \E t \in {clean_text(DocText(n)) : n \in TxtNames}, n \in TxtNames, o \in CallerNames :
          loc = [InitLocals EXCEPT !.cleaned_text = t,
                                   !.metadata = extract_metadata(t, n),
                                   !.output_filename = o]
NextSave == SaveText \/ SaveMeta
SpecSave == InitSave /\ [][NextSave]_vars

\* C22: after save_processed_text has returned, the sidecar path differs from
\* the processed-text path, the processed file holds exactly the text argument
\* and the sidecar holds the key: value lines of the metadata.
C22_TwoDistinctFiles ==
    (driver = "save" /\ pc = "returned") =>
        LET processed_file == Path("processed", loc.output_filename)
            metadata_file ==
                Path("processed", StrReplace(loc.output_filename, S_txt, S_metadata_txt))
        IN  /\ metadata_file # processed_file
            /\ fs[processed_file] = loc.cleaned_text
            /\ fs[metadata_file] = MetadataLines(loc.metadata)

-----------------------------------------------------------------------------
(* Repeated runs of process_all_decrees over the same directories *)

MaxRuns == 2
MaxRunDocs == 1

\* a document as edited between two runs
Revised(t) == t \o <<" ", "v", "2">>
RunDocs(name) ==
    TxtDocs(name) \cup {[kind |-> k, content |-> Revised(DocText(name))] : k \in {"utf8", "latin1"}}

\* the next invocation: the raw directory may hold other documents, the
\* processed and backup directories are as the earlier runs left them
LoaderRunAgain ==
    /\ driver = "loader" /\ pc \in {"returned", "raised"}
    /\ run + 1 < MaxRuns
    /\ run' = run + 1
    /\ files' \in DistinctSeqs(TxtNames, MaxRunDocs)
    /\ disk' \in {f \in [Range(files') -> UNION {RunDocs(x) : x \in Range(files')}] :
                     \A x \in Range(files') : f[x] \in RunDocs(x)}
    /\ idx' = 0 /\ pc' = "start"
    /\ log' = <<>> /\ all_metadata' = <<>>
    /\ loc' = InitLocals
    /\ attempts' = [i \in 1..Len(files') |-> 0]
    /\ raised' = {}
    /\ UNCHANGED <<family, text, nfrag, applied, out, out2, meta, driver, fs, results, summary,
                   successful_extractions>>

InitRerun == InitRun({"loader"}, MaxRunDocs, {})
NextRerun == NextLoader \/ LoaderRunAgain
SpecRerun == InitRerun /\ [][NextRerun]_vars

\* the processed files of the documents listed in processing_summary.csv
ListedFiles == {ProcessedPath(summary.rows[i].filename) : i \in DOMAIN summary.rows}

\* C23: when a run of process_all_decrees returns, after any earlier runs over
\* the same directories, the _processed.txt files present in the processed
\* directory are exactly those of the documents listed in the current
\* processing_summary.csv, and each holds the cleaned text of this run.
C23_ProcessedMatchesSummary ==
    (driver = "loader" /\ pc = "returned") =>
        /\ ProcessedFiles = ListedFiles
        /\ \A f \in ProcessedFiles :
               \E i \in DOMAIN files :
                   /\ f = ProcessedPath(files[i])
                   /\ fs[f] = clean_text(disk[files[i]].content)

-----------------------------------------------------------------------------
(* process_all_colombian_decrees (pdfplumber) *)

\* the PDFs of data/raw that the glob "*.pdf" lists
DecreeNames == {<<"a"," ","b",".","p","d","f">>, <<"a","_","b",".","p","d","f">>,
                <<"a"," ","-"," ","b",".","p","d","f">>, <<"c",".","p","d","f">>}
S_dash == <<" ", "-", " ">>
\* pdf_file.name.replace('.pdf', '.txt').replace(' - ', '_').replace(' ', '_')
OutputName(name) ==
    StrReplace(StrReplace(StrReplace(name, S_pdf, S_txt), S_dash, <<"_">>), <<" ">>, <<"_">>)

\* the frame of the steps that set the counter
CounterFrame ==
    UNCHANGED <<family, text, nfrag, applied, out, out2, meta, driver, files, disk, run>>

\* the glob, the early return, the list of names, successful_extractions = 0
DecreesStart ==
    /\ driver = "decrees" /\ pc = "start"
    /\ \/ /\ files = <<>>
          /\ Logged("PRINT", "No PDF files found in data/raw/", NoDoc, 0)
          /\ pc' = "returned"
          /\ UNCHANGED <<idx, attempts, loc, successful_extractions>>
       \/ /\ files # <<>>
          /\ log' = log \o <<LogRec("PRINT", "Found PDF files", NoDoc, 0)>>
                        \o [i \in 1..Len(files) |-> LogRec("PRINT", "-", files[i], 0)]
                        \o <<LogRec("PRINT", "Starting extraction with pdfplumber", NoDoc, 0)>>
          /\ successful_extractions' = 0
          /\ BeginDoc(1, "doc")
    /\ UNCHANGED <<fs, all_metadata, results, summary, raised>>
    /\ CounterFrame

\* print(f"Processing: ..."), the output name, then the call
DecreesDoc ==
    /\ driver = "decrees" /\ pc = "doc"
    /\ Logged("PRINT", "Processing", loc.name, 0)
    /\ loc' = [loc EXCEPT !.output_filename = OutputName(loc.name)]
    /\ pc' = "exists"
    /\ UNCHANGED <<idx, attempts, fs, all_metadata, results, summary, raised>>
    /\ BatchFrame

\* word_count = len(text.split()); if word_count > 0: ... successful_extractions += 1
DecreesCheck ==
    /\ driver = "decrees" /\ pc = "ok_return"
    /\ LET word_count == SplitCount(loc.full_text)
       IN  IF word_count > 0
           THEN /\ log' = log \o <<LogRec("PRINT", "Success! Extracted", loc.name, 0),
                                   LogRec("PRINT", "Saved as", loc.output_filename, 0),
                                   LogRec("PRINT", "Preview", loc.name, 0)>>
                /\ successful_extractions' = successful_extractions + 1
           ELSE /\ log' = log \o <<LogRec("PRINT", "WARNING: No text extracted from", loc.name, 0),
                                   LogRec("PRINT", "This might be an image-based PDF requiring OCR",
                                          NoDoc, 0)>>
                /\ UNCHANGED successful_extractions
    /\ NextDoc("doc", "done")
    /\ UNCHANGED <<fs, all_metadata, results, summary, raised>>
    /\ CounterFrame

\* except Exception as e: print(f" Failed to process ..."); continue
DecreesExcept ==
    /\ driver = "decrees" /\ pc = "except"
    /\ Logged("PRINT", "Failed to process", loc.name, 0)
    /\ NextDoc("doc", "done")
    /\ UNCHANGED <<fs, all_metadata, results, summary, raised>>
    /\ BatchFrame

\* the closing lines: the count, and the tip when some file was not counted
DecreesDone ==
    /\ driver = "decrees" /\ pc = "done"
    /\ log' = log \o <<LogRec("PRINT", "Processing complete!", NoDoc, 0),
                        LogRec("PRINT", "Successfully processed", NoDoc, 0)>>
                  \o (IF successful_extractions < Len(files)
                      THEN <<LogRec("PRINT", "Tip: Files that failed might be", NoDoc, 0)>>
                      ELSE <<>>)
    /\ pc' = "returned"
    /\ UNCHANGED <<idx, attempts, fs, all_metadata, results, loc, summary, raised>>
    /\ BatchFrame

InitDecrees ==
    /\ family = "none" /\ PureIdle
    /\ driver = "decrees"
    /\ files \in DistinctSeqs(DecreeNames, MaxDocs)
    /\ disk \in [Range(files) -> {x \in BatchPdfDocs : x.open # "no_poppler"}]
    /\ idx = 0 /\ pc = "start"
    /\ log = <<>> /\ fs = <<>>
    /\ all_metadata = <<>> /\ results = <<>>
    /\ loc = InitLocals
    /\ summary = [exists |-> FALSE, rows |-> <<>>]
    /\ attempts = [i \in 1..Len(files) |-> 0]
    /\ raised = {} /\ run = 0 /\ successful_extractions = 0

NextDecrees ==
    \/ DecreesStart \/ DecreesDoc \/ PdfExists \/ PdfOpen \/ PdfPage \/ PdfClean \/ PdfWrite
    \/ PdfInnerExcept \/ DecreesCheck \/ DecreesExcept \/ DecreesDone
SpecDecrees == InitDecrees /\ [][NextDecrees]_vars

\* the two batch runs that derive an output name from the name of each document
InitOutputs == InitRun({"loader"}, MaxDocs, {}) \/ InitDecrees
NextOutputs == NextLoader \/ NextDecrees
SpecOutputs == InitOutputs /\ [][NextOutputs]_vars

\* the output file of the i-th document of the run
OutputPath(i) ==
    IF driver = "loader" THEN ProcessedPath(files[i]) ELSE Path("raw", OutputName(files[i]))

\* C24: when a batch run of process_all_decrees or process_all_colombian_decrees
\* has returned, any two different documents that were processed without an
\* exception have different output files.
C24_DistinctOutputs ==
    (driver \in {"loader", "decrees"} /\ pc = "returned") =>
        \A i, j \in DOMAIN files :
            (i # j /\ i \notin raised /\ j \notin raised) => OutputPath(i) # OutputPath(j)

\* process_all_colombian_decrees printed that the document gave no text or failed
ReportedUnsuccessful(name) ==
    \/ LoggedFor("PRINT", "WARNING: No text extracted from", name, 0)
    \/ LoggedFor("PRINT", "Failed to process", name, 0)

\* C27: when process_all_colombian_decrees has returned, the count it reports
\* equals the number of documents whose output file was written, and a
\* document reported as not successful has no output file.
C27_CountMatchesOutputs ==
    (driver = "decrees" /\ pc = "returned") =>
        /\ successful_extractions =
               Cardinality({i \in DOMAIN files : OutputPath(i) \in DOMAIN fs})
        /\ \A i \in DOMAIN files :
               ReportedUnsuccessful(files[i]) => OutputPath(i) \notin DOMAIN fs

-----------------------------------------------------------------------------
(* extract_and_save_lemmatized_versions *)

\* the .txt files of the input folder
LemmaNames == {<<"a",".","t","x","t">>, <<"b",".","t","x","t">>,
               <<"a">> \o S_metadata_txt}
S_metadata == <<"m","e","t","a","d","a","t","a">>
S_lemmatized_ == <<"l","e","m","m","a","t","i","z","e","d","_">>
\* the tokens spaCy yields: two forms of one verb, a punctuation mark, a space
LemmaTokens ==
    {[text |-> <<"e","s">>, lemma |-> <<"s","e","r">>, kind |-> "word"],
     [text |-> <<"s","o","n">>, lemma |-> <<"s","e","r">>, kind |-> "word"],
     [text |-> <<".">>, lemma |-> <<".">>, kind |-> "punct"],
     [text |-> <<" ">>, lemma |-> <<" ">>, kind |-> "space"]}
MaxTokens == 2
\* an input file: it cannot be read, nlp(text) raises, or nlp(text) yields tokens
LemmaDocs ==
    {[kind |-> k, tokens |-> <<>>] : k \in {"unreadable", "nlp_raises"}}
    \cup {[kind |-> "ok", tokens |-> tk] : tk \in SeqsUpTo(LemmaTokens, MaxTokens)}

\* 'metadata' in s.lower()
HasMetadata(name) ==
    \E k \in 1..(Len(name) - Len(S_metadata) + 1) :
        \A j \in 1..Len(S_metadata) :
            name[k + j - 1] \in IC(S_metadata[j])
\* the tokens with not token.is_punct and not token.is_space
WordTokens(name) == SelectSeq(disk[name].tokens, LAMBDA t : t.kind = "word")
original_words(name) == [i \in DOMAIN WordTokens(name) |-> WordTokens(name)[i].text]
lemmatized_words(name) == [i \in DOMAIN WordTokens(name) |-> WordTokens(name)[i].lemma]
RECURSIVE JoinSpace(_)
\* " ".join(words)
JoinSpace(ws) ==
    IF ws = <<>> THEN <<>>
    ELSE IF Len(ws) = 1 THEN ws[1]
    ELSE ws[1] \o <<" ">> \o JoinSpace(Tail(ws))
LemmaPath(name) == Path("lemmatized", S_lemmatized_ \o name)

\* the folder check, the glob, the metadata filter, lemmatized_results = {}
LemmaStart ==
    /\ driver = "lemma" /\ pc = "start"
    /\ results' = <<>>
    /\ \/ /\ files = <<>>
          /\ Logged("PRINT", "No decree files to process after filtering!", NoDoc, 0)
          /\ pc' = "returned"
          /\ UNCHANGED <<idx, attempts, loc>>
       \/ /\ files # <<>>
          /\ log' = log \o <<LogRec("PRINT", "Found total .txt files", NoDoc, 0),
                              LogRec("PRINT", "Processing decree files", NoDoc, 0)>>
          /\ BeginDoc(1, "read")
    /\ UNCHANGED <<fs, all_metadata, summary, raised>>
    /\ BatchFrame

\* print(f"Processing: ..."); open(file_path, 'r', encoding='utf-8'); f.read()
LemmaRead ==
    /\ driver = "lemma" /\ pc = "read"
    /\ Logged("PRINT", "Processing", loc.name, 0)
    /\ IF disk[loc.name].kind = "unreadable"
       THEN Raise(Exc("OSError", "read failed"), "except")
       ELSE /\ loc' = [loc EXCEPT !.opened = TRUE]
            /\ pc' = "nlp"
            /\ UNCHANGED raised
    /\ UNCHANGED <<idx, attempts, fs, all_metadata, results, summary>>
    /\ BatchFrame

\* doc = nlp(text) and the loop over its tokens
LemmaNlp ==
    /\ driver = "lemma" /\ pc = "nlp"
    /\ IF disk[loc.name].kind = "nlp_raises"
       THEN Raise(Exc("Exception", "nlp failed"), "except")
       ELSE /\ loc' = [loc EXCEPT !.full_text = JoinSpace(lemmatized_words(loc.name))]
            /\ pc' = "write"
            /\ UNCHANGED raised
    /\ UNCHANGED <<idx, attempts, log, fs, all_metadata, results, summary>>
    /\ BatchFrame

\* the write of lemmatized_<name>
LemmaWrite ==
    /\ driver = "lemma" /\ pc = "write"
    /\ \E o \in WriteOutcomes :
        /\ fs' = Written(fs, LemmaPath(loc.name), loc.full_text, o)
        /\ IF o = "ok"
           THEN pc' = "store" /\ UNCHANGED <<loc, raised>>
           ELSE Raise(Exc("OSError", "output write failed"), "except")
    /\ UNCHANGED <<idx, attempts, log, all_metadata, results, summary>>
    /\ BatchFrame

\* lemmatized_results[file_path.name] = {...}; print(f"  Saved: ...")
LemmaStore ==
    /\ driver = "lemma" /\ pc = "store"
    /\ LET unique_original == Cardinality(Range(original_words(loc.name)))
           unique_lemmatized == Cardinality(Range(lemmatized_words(loc.name)))
       IN  IF unique_original = 0
           THEN /\ Raise(Exc("ZeroDivisionError", "division by zero"), "except")
                /\ UNCHANGED <<idx, attempts, log, results>>
           ELSE /\ results' = Put(results, loc.name,
                                  [original_words |-> Len(original_words(loc.name)),
                                   unique_original |-> unique_original,
                                   unique_lemmatized |-> unique_lemmatized,
                                   reduction |-> [num |-> unique_original - unique_lemmatized,
                                                  den |-> unique_original]])
                /\ Logged("PRINT", "Saved", S_lemmatized_ \o loc.name, 0)
                /\ NextDoc("read", "summary")
                /\ UNCHANGED raised
    /\ UNCHANGED <<fs, all_metadata, summary>>
    /\ BatchFrame

\* except Exception as e: print(f"  Error processing {file_path.name}: {e}"), then
\* the next file; the record keeps str(e)
LemmaExcept ==
    /\ driver = "lemma" /\ pc = "except"
    /\ Logged("PRINT", loc.exc.msg, loc.name, 0)
    /\ NextDoc("read", "summary")
    /\ UNCHANGED <<fs, all_metadata, results, summary, raised>>
    /\ BatchFrame

\* json.dump(lemmatized_results, ...) to lemmatization_summary.json and the return
LemmaSummary ==
    /\ driver = "lemma" /\ pc = "summary"
    /\ \E o \in WriteOutcomes :
        /\ summary' = CASE o = "ok" -> [exists |-> TRUE, rows |-> results]
                        [] o = "write_fails" -> [exists |-> TRUE, rows |-> <<>>]
                        [] OTHER -> summary
        /\ IF o = "ok"
           THEN /\ Logged("PRINT", "Summary saved to", NoDoc, 0)
                /\ pc' = "returned"
                /\ UNCHANGED loc
           ELSE /\ loc' = [loc EXCEPT !.exc = Exc("OSError", "summary write failed")]
                /\ pc' = "raised"
                /\ UNCHANGED log
    /\ UNCHANGED <<idx, attempts, fs, all_metadata, results, raised>>
    /\ BatchFrame

InitLemma ==
    /\ family = "none" /\ PureIdle
    /\ driver = "lemma"
    /\ \E txt_files \in DistinctSeqs(LemmaNames, MaxDocs) :
          files = SelectSeq(txt_files, LAMBDA f : ~HasMetadata(f))
    /\ disk \in [Range(files) -> LemmaDocs]
    /\ idx = 0 /\ pc = "start"
    /\ log = <<>> /\ fs = <<>>
    /\ all_metadata = <<>> /\ results = <<>>
    /\ loc = InitLocals
    /\ summary = [exists |-> FALSE, rows |-> <<>>]
    /\ attempts = [i \in 1..Len(files) |-> 0]
    /\ raised = {} /\ run = 0 /\ successful_extractions = 0

NextLemma ==
    \/ LemmaStart \/ LemmaRead \/ LemmaNlp \/ LemmaWrite \/ LemmaStore \/ LemmaExcept
    \/ LemmaSummary
SpecLemma == InitLemma /\ [][NextLemma]_vars

\* the output file of the input file f exists and its write did not fail
OutputWritten(f) ==
    /\ LemmaPath(f) \in DOMAIN fs
    /\ ~LoggedFor("PRINT", "output write failed", f, 0)

\* C28: when extract_and_save_lemmatized_versions has returned after writing
\* lemmatization_summary.json, the summary has an entry for exactly the input
\* files whose lemmatized_<name> file was written during the run.
C28_SummaryMatchesOutputs ==
    (driver = "lemma" /\ pc = "returned" /\ summary.exists) =>
        DOMAIN summary.rows = {f \in Range(files) : OutputWritten(f)}

=============================================================================
